---- MODULE Spec2Model ----
(***************************************************************************)
(* Tapered-capsule pipeline: the coverage analyzer, the capsule fitter,    *)
(* the weight transfer and smoothing engine, and the two pipelines'        *)
(* handling of the external decomposer and solver.                         *)
(*                                                                         *)
(* Lengths are integers in units of 0.1 (the point (0.8, 0.1, 0) is        *)
(* <<8, 1, 0>>).  Square roots are avoided by comparing squares, and       *)
(* quotients by comparing cross-products, so that every comparison the     *)
(* code makes on reals is made here exactly.                               *)
(***************************************************************************)
EXTENDS Integers, Sequences, FiniteSets, TLC

VARIABLES
    \* ---- coverage analyzer (both pipelines) ----
    capsules,          \* candidate list handed to build_coverage_matrix
    witness_points,    \* witness points handed to build_coverage_matrix
    coverage_matrix,   \* CoACDCapsulePipeline.build_coverage_matrix result
    vrm_coverage,      \* VRMCapsulePipeline.build_coverage_matrix result
    probe,             \* last standalone _point_in_tapered_capsule call
    constraints_ok,    \* VRMCapsulePipeline.constraints_file is set and exists
    \* ---- capsule fitter (generate_candidate_capsules) ----
    hulls,             \* the clusters handed to the fitter, each a list of points
    fit_i,             \* the loop index i (the next hull is hulls[fit_i + 1])
    fit_capsules,      \* the list `capsules` built so far
    fit_skipped,       \* the indices whose iteration ended in the except branch
    fit_pc,            \* "loop" | "done"
    \* ---- weight transfer and smoothing (CapsuleSkinningSystem) ----
    original_mesh_data,          \* source vertices: position, bone_weights, bone_indices
    capsule_vertices,            \* Nx3 capsule vertex positions
    capsule_faces,               \* Fx3 capsule faces (vertex numbers from 1)
    ROBUST_LAPLACIAN_AVAILABLE,  \* the module-level import flag
    smoothing_iterations,        \* argument of transfer_and_smooth_capsule_weights
    initial_weights,             \* what transfer_weights_closest_point returned
    smooth_weights,              \* the local smooth_weights of the smoothing loop
    bone_indices,                \* the indices returned along with the weights
    smooth_i,                    \* smoothing passes done
    last_strategy,               \* strategy the last pass returned from
    joints_data,                 \* prepare_skinning_data result (JOINTS_0)
    weights_data,                \* prepare_skinning_data result (WEIGHTS_0)
    skin_pc,                     \* "start" | "smoothing" | "returned" | "packed"
    \* ---- CoACDCapsulePipeline.run_complete_pipeline ----
    mesh_vertices,        \* len(mesh.vertices)
    bone_vertex_groups,   \* the size of each bone's vertex group, in dict order
    coacd_importable,     \* `import coacd` succeeds
    model_file_exists,    \* coacd_capsule_model.mzn lies next to the module
    results_file,         \* <stem>_coacd_results.txt in the output directory
    gltf_file,            \* <stem>_coacd_capsules.gltf in the output directory
    pipe_hulls,           \* the local `hulls`
    pipe_capsules,        \* the local `capsules`, each the id of its hull
    decomposer_failures,  \* how the decomposer failed in this run, if it did
    solver_event,         \* how the solver call of step 7 ended
    pipe_stages,          \* the steps entered so far, in order
    pipe_pc,              \* the step to run next, or "done"
    pipe_result,          \* "running" | "ok" (True) | "failed" (False)
    \* ---- VRMCapsulePipeline.run_optimization ----
    opt_max_capsules,     \* argument max_capsules
    opt_timeout,          \* argument timeout, in seconds
    has_constraints,      \* hasattr(self, 'constraints_file')
    vrm_reloadable,       \* analyzer.load_vrm_file succeeds
    opt_model_exists,     \* tapered_capsule.mzn lies next to the module
    opt_idx,              \* position in capsule_counts of the next attempt
    best_capsule_count,   \* 0 while best_result is None
    attempts,             \* the solver invocations made so far, in order
    last_outcome,         \* how the last run_single_optimization ended
    opt_results_file,     \* the capsule count whose output self.results_file holds
    opt_pc,               \* "start" | "attempt" | "fallback" | "finish" | "done"
    opt_return,           \* "none" | "true" | "false" | "raised"
    significant_bones,    \* how many bones the analyzer has constraint rows for
    opt_constraints_file, \* the content of self.constraints_file
    enhanced_attr,        \* hasattr(self, 'enhanced_constraints_file')
    opt_enhanced_file,    \* the content of self.enhanced_constraints_file
    attempt_data,         \* the temporary data file written for the last attempt
    temp_left,            \* the capsule counts whose temporary data file is on disk
    \* ---- enhanced constraint data (VRM pipeline) ----
    enh_constraints_file, \* the lines of self.constraints_file, <<>> when unreadable
    enh_enhanced_file,    \* the lines of the enhanced data file, <<>> when absent
    enh_attr,             \* hasattr(self, 'enhanced_constraints_file')
    enh_return,           \* "none" | "true" | "false"
    enh_calls,            \* calls of create_enhanced_constraint_data so far
    \* ---- glTF scene builder (GLTFCapsuleGenerator) ----
    gltf_data,            \* self.gltf_data and the length of self.buffer_data
    gltf_route,           \* how the scene was built since the generator was made
    gltf_selected,        \* the number of capsules handed to the last builder call
    gltf_calls,           \* calls of generate_gltf so far
    gltf_ops,             \* calls of any public method so far
    gltf_validation,      \* "none" | "passed" | "warning": the last self-check
    \* ---- solver output parser (parse_minizinc_output) ----
    output_text,          \* the lines of the solver output
    integer_scaling_note, \* "Integer scaling: 1000x" occurs in the output
    manual_scale,         \* the manual_scale argument, or not given
    dzn_file,             \* the companion data file named by dzn_path
    parse_result,         \* what the parser returned, or that it raised
    parse_caller,         \* "none" | "generator" | "pipeline"
    parse_pc,             \* "ready" | "done"
    \* ---- capsule mesh (generate_capsule_mesh) ----
    mesh_candidate,       \* the candidate record handed to process_results
    mesh_capsule_data,    \* the capsule_data process_results built from it
    mesh_args,            \* the arguments of the last generate_capsule_mesh call
    capsule_mesh          \* what that call returned

covVars == <<capsules, witness_points, coverage_matrix, vrm_coverage, probe, constraints_ok>>

fitVars == <<hulls, fit_i, fit_capsules, fit_skipped, fit_pc>>

skinVars == <<original_mesh_data, capsule_vertices, capsule_faces,
              ROBUST_LAPLACIAN_AVAILABLE, smoothing_iterations, initial_weights,
              smooth_weights, bone_indices, smooth_i, last_strategy,
              joints_data, weights_data, skin_pc>>

pipeVars == <<mesh_vertices, bone_vertex_groups, coacd_importable,
              model_file_exists, results_file, gltf_file, pipe_hulls,
              pipe_capsules, decomposer_failures, solver_event, pipe_stages,
              pipe_pc, pipe_result>>

optVars == <<opt_max_capsules, opt_timeout, has_constraints, vrm_reloadable,
             opt_model_exists, opt_idx, best_capsule_count, attempts,
             last_outcome, opt_results_file, opt_pc, opt_return,
             significant_bones, opt_constraints_file, enhanced_attr,
             opt_enhanced_file, attempt_data, temp_left>>

enhVars == <<enh_constraints_file, enh_enhanced_file, enh_attr, enh_return,
             enh_calls>>

gltfVars == <<gltf_data, gltf_route, gltf_selected, gltf_calls, gltf_ops,
              gltf_validation>>

parseVars == <<output_text, integer_scaling_note, manual_scale, dzn_file,
               parse_result, parse_caller, parse_pc>>

meshVars == <<mesh_candidate, mesh_capsule_data, mesh_args, capsule_mesh>>

vars == <<covVars, fitVars, skinVars, pipeVars, optVars, enhVars, gltfVars, parseVars, meshVars>>

\* What an action of one component leaves alone: the other components
CovFrame == UNCHANGED <<fitVars, skinVars, pipeVars, optVars, enhVars, gltfVars, parseVars, meshVars>>

FitFrame == UNCHANGED <<covVars, skinVars, pipeVars, optVars, enhVars, gltfVars, parseVars, meshVars>>

SkinFrame == UNCHANGED <<covVars, fitVars, pipeVars, optVars, enhVars, gltfVars, parseVars, meshVars>>

PipeFrame == UNCHANGED <<covVars, fitVars, skinVars, optVars, enhVars, gltfVars, parseVars, meshVars>>

OptFrame == UNCHANGED <<covVars, fitVars, skinVars, pipeVars, enhVars, gltfVars, parseVars, meshVars>>

EnhFrame == UNCHANGED <<covVars, fitVars, skinVars, pipeVars, optVars, gltfVars, parseVars, meshVars>>

GltfFrame == UNCHANGED <<covVars, fitVars, skinVars, pipeVars, optVars, enhVars, parseVars, meshVars>>

ParseFrame ==
    UNCHANGED <<covVars, fitVars, skinVars, pipeVars, optVars, enhVars, gltfVars,
                meshVars>>

MeshFrame ==
    UNCHANGED <<covVars, fitVars, skinVars, pipeVars, optVars, enhVars, gltfVars,
                parseVars>>

\* The components at rest, for the specifications that do not run them
CovIdle ==
    /\ capsules = <<>> /\ witness_points = <<>> /\ constraints_ok = FALSE
    /\ coverage_matrix = <<>> /\ vrm_coverage = <<>> /\ probe = <<>>

EnhIdle ==
    /\ enh_constraints_file = <<>> /\ enh_enhanced_file = <<>>
    /\ enh_attr = FALSE /\ enh_return = "none" /\ enh_calls = 0

\* gltf_data as __init__ leaves it (lines 19-47); the material and the asset
\* header never change and are left out
EmptyScene ==
    [nodes |-> <<>>, meshes |-> <<>>, accessors |-> <<>>, bufferViews |-> <<>>,
     buffers |-> <<>>, skins |-> <<>>, buffer_data |-> 0]

GltfIdle ==
    /\ gltf_data = EmptyScene /\ gltf_route = "fresh" /\ gltf_selected = 0
    /\ gltf_calls = 0 /\ gltf_ops = 0 /\ gltf_validation = "none"

\* A parser that has returned nothing yet
NoParse == [raised |-> FALSE, capsules |-> <<>>, diagnostics |-> 0]

\* manual_scale=None and dzn_path=None
NotGiven == [given |-> FALSE, value |-> 0]

NoDznFile == [kind |-> "none", has_rotation |-> FALSE, rotation |-> <<>>,
              has_direction |-> FALSE, direction |-> <<>>]

ParseIdle ==
    /\ output_text = <<>> /\ integer_scaling_note = FALSE
    /\ manual_scale = NotGiven /\ dzn_file = NoDznFile
    /\ parse_result = NoParse /\ parse_caller = "none" /\ parse_pc = "idle"

\* No candidate, no capsule_data, no call and no mesh yet
NoCandidate == [given |-> FALSE, height |-> 0, radius_top |-> 0, radius_bottom |-> 0]

NoCapsuleData == [built |-> FALSE, length |-> 0, radius1 |-> 0, radius2 |-> 0]

NoMeshArgs == [called |-> FALSE, length |-> 0, radius1 |-> 0, radius2 |-> 0,
               segments |-> 0]

NoMesh == [vertices |-> <<>>, normals |-> <<>>, indices |-> <<>>]

MeshIdle ==
    /\ mesh_candidate = NoCandidate /\ mesh_capsule_data = NoCapsuleData
    /\ mesh_args = NoMeshArgs /\ capsule_mesh = NoMesh

FitIdle ==
    /\ hulls = <<>> /\ fit_i = 0 /\ fit_capsules = <<>> /\ fit_skipped = {}
    /\ fit_pc = "idle"

SkinIdle ==
    /\ original_mesh_data = <<>> /\ capsule_vertices = <<>> /\ capsule_faces = <<>>
    /\ ROBUST_LAPLACIAN_AVAILABLE = FALSE /\ smoothing_iterations = 0
    /\ initial_weights = <<>> /\ smooth_weights = <<>> /\ bone_indices = <<>>
    /\ smooth_i = 0 /\ last_strategy = "none"
    /\ joints_data = <<>> /\ weights_data = <<>> /\ skin_pc = "idle"

\* A file that does not exist
NoFile == [exists |-> FALSE, origin |-> "none", found |-> FALSE, indices |-> {}]

PipeIdle ==
    /\ mesh_vertices = 0 /\ bone_vertex_groups = <<>>
    /\ coacd_importable = FALSE /\ model_file_exists = FALSE
    /\ results_file = NoFile /\ gltf_file = NoFile
    /\ pipe_hulls = <<>> /\ pipe_capsules = <<>>
    /\ decomposer_failures = {} /\ solver_event = "not_run"
    /\ pipe_stages = <<>> /\ pipe_pc = "idle" /\ pipe_result = "running"

\* A solver data file that does not exist
NoData ==
    [exists |-> FALSE, n_capsules |-> 0, rows |-> 0, coverage |-> FALSE,
     coverage_rows |-> 0]

NoAttemptData == [capsule_count |-> 0, data |-> NoData]

OptIdle ==
    /\ opt_max_capsules = 0 /\ opt_timeout = 0 /\ has_constraints = FALSE
    /\ vrm_reloadable = FALSE /\ opt_model_exists = FALSE /\ opt_idx = 0
    /\ best_capsule_count = 0 /\ attempts = <<>> /\ last_outcome = "none"
    /\ opt_results_file = 0 /\ opt_pc = "idle" /\ opt_return = "none"
    /\ significant_bones = 0 /\ opt_constraints_file = NoData
    /\ enhanced_attr = FALSE /\ opt_enhanced_file = NoData
    /\ attempt_data = NoAttemptData /\ temp_left = {}

-----------------------------------------------------------------------------
(* Vectors: 3-tuples of integers.                                          *)

Vec(x, y, z) == <<x, y, z>>

Sub(a, b) == <<a[1] - b[1], a[2] - b[2], a[3] - b[3]>>

Scale(k, a) == <<k * a[1], k * a[2], k * a[3]>>

Dot(a, b) == a[1] * b[1] + a[2] * b[2] + a[3] * b[3]

NormSq(a) == Dot(a, a)

Max2(a, b) == IF a >= b THEN a ELSE b

\* np.clip(x, lo, hi)
Clip(x, lo, hi) == IF x < lo THEN lo ELSE IF x > hi THEN hi ELSE x

\* All sequences over S of length 0..n
SeqsUpTo(S, n) == UNION {[1..k -> S] : k \in 0..n}

-----------------------------------------------------------------------------
(* Bounds and input sets of the coverage analyzer.                         *)

MaxCapsules == 2

MaxWitness == 2

\* Witness positions, units of 0.1.  They hold the points of the test suite
\* and of Scenarios A and B: (0,1,0), (0,1,2), (0,0.5,0), (0,1.5,0),
\* (0.8,0.1,0), (0.8,1.9,0), and two points past the ends of the segment.
WitnessPool ==
    << Vec(0, 10, 0), Vec(0, 10, 20), Vec(8, 1, 0), Vec(8, 19, 0),
       Vec(0, 5, 0), Vec(0, 15, 0), Vec(0, -12, 0), Vec(3, 24, 0) >>

\* A candidate carries the fields CoACDCapsulePipeline reads (p1, p2,
\* radius_top, radius_bottom) and the bone box VRMCapsulePipeline reads from
\* the constraint file (center, size).
Candidate(p1, p2, rt, rb, c, s) ==
    [p1 |-> p1, p2 |-> p2, radius_top |-> rt, radius_bottom |-> rb,
     center |-> c, size |-> s]

CandidatePool ==
    << Candidate(Vec(0, 0, 0), Vec(0, 20, 0), 10, 10, Vec(0, 10, 0), Vec(20, 40, 20)),
       Candidate(Vec(0, 0, 0), Vec(0, 20, 0), 5, 10, Vec(0, 10, 0), Vec(20, 35, 20)),
       Candidate(Vec(0, 0, 0), Vec(0, 20, 0), 10, 5, Vec(0, 10, 0), Vec(10, 20, 10)),
       Candidate(Vec(0, 10, 0), Vec(0, 10, 0), 3, 6, Vec(0, 10, 0), Vec(12, 12, 12)),
       Candidate(Vec(0, 0, 0), Vec(6, 8, 0), 4, 2, Vec(3, 4, 0), Vec(14, 16, 8)),
       Candidate(Vec(0, 0, 0), Vec(6, 8, 0), 4, 4, Vec(3, 4, 0), Vec(14, 16, 8)),
       Candidate(Vec(0, 10, 0), Vec(0, 10, 0), 5, 5, Vec(0, 10, 0), Vec(10, 10, 10)) >>

\* The runs of at most n consecutive elements of a pool (the empty run too)
Runs(pool, n) ==
    { SubSeq(pool, ab[1], ab[2]) :
        ab \in { x \in (1..Len(pool)) \X (0..Len(pool)) :
                   x[2] >= x[1] - 1 /\ x[2] - x[1] + 1 <= n } }

-----------------------------------------------------------------------------
(* _point_in_tapered_capsule, src/coacd_capsule_pipeline.py:474-508.       *)
(* With line_vec = p2 - p1 and L2 = |line_vec|^2 the code's quantities are *)
(*   projection_length = proj / line_len    (proj = clip(dot, 0, L2))      *)
(*   closest_point     = p1 + (proj / L2) * line_vec                       *)
(*   t                 = proj / L2                                         *)
(*   current_radius    = radius_bottom + t * (radius_top - radius_bottom)  *)
(* and distance_to_axis <= current_radius is decided on both sides         *)
(* multiplied by L2 and squared (the left side is never negative).         *)

\* line_len < 1e-8: on the 0.1 grid a segment is that short iff it has length 0
EPS_DEGENERATE(line_vec) == NormSq(line_vec) = 0

\* current_radius * L2 (line 505), proj = projection_length * line_len
current_radius_L2(proj, L2, radius_top, radius_bottom) ==
    radius_bottom * L2 + proj * (radius_top - radius_bottom)

\* The projection without the clamp of line 497, for comparison
projection_unclamped(point_vec, line_vec) == Dot(point_vec, line_vec)

\* projection_length clipped to the segment (line 495), times line_len
clamped_projection(point_vec, line_vec) ==
    Clip(Dot(point_vec, line_vec), 0, NormSq(line_vec))

\* _point_in_tapered_capsule with `<` in place of `<=` at lines 483 and 508
point_in_tapered_capsule_strict(point, p1, p2, radius_top, radius_bottom) ==
    LET line_vec == Sub(p2, p1)
        L2 == NormSq(line_vec)
        point_vec == Sub(point, p1)
    IN  IF EPS_DEGENERATE(line_vec)
        THEN LET r == Max2(radius_top, radius_bottom)
             IN  r > 0 /\ NormSq(point_vec) < r * r
        ELSE LET proj == clamped_projection(point_vec, line_vec)
                 to_closest_L2 == Sub(Scale(L2, point_vec), Scale(proj, line_vec))
                 rL2 == current_radius_L2(proj, L2, radius_top, radius_bottom)
             IN  rL2 > 0 /\ NormSq(to_closest_L2) < rL2 * rL2

\* _point_to_line_segment_distance (lines 447-472): the square of the
\* returned distance is sq / den
point_to_line_segment_distance(point, p1, p2) ==
    LET line_vec == Sub(p2, p1)
        L2 == NormSq(line_vec)
        point_vec == Sub(point, p1)
    IN  IF EPS_DEGENERATE(line_vec)
        THEN [sq |-> NormSq(point_vec), den |-> 1]
        ELSE LET proj == clamped_projection(point_vec, line_vec)
             IN  [sq |-> NormSq(Sub(Scale(L2, point_vec), Scale(proj, line_vec))),
                  den |-> L2 * L2]

point_in_tapered_capsule(point, p1, p2, radius_top, radius_bottom) ==
    LET line_vec == Sub(p2, p1)
        L2 == NormSq(line_vec)
        point_vec == Sub(point, p1)
    IN  IF EPS_DEGENERATE(line_vec)
        THEN LET r == Max2(radius_top, radius_bottom)
             IN  r >= 0 /\ NormSq(point_vec) <= r * r
        ELSE LET proj == clamped_projection(point_vec, line_vec)
                 to_closest_L2 == Sub(Scale(L2, point_vec), Scale(proj, line_vec))
                 rL2 == current_radius_L2(proj, L2, radius_top, radius_bottom)
             IN  rL2 >= 0 /\ NormSq(to_closest_L2) <= rL2 * rL2

-----------------------------------------------------------------------------
(* Coverage matrices.  A numpy array of shape (n, m) is a record of its    *)
(* shape and its rows, so that (0, m) and (n, 0) are told apart; `none` is *)
(* a returned None and `built` tells whether the function has run.         *)

Unbuilt == [built |-> FALSE, none |-> FALSE, shape |-> <<0, 0>>, data |-> <<>>]

ReturnedNone == [built |-> TRUE, none |-> TRUE, shape |-> <<0, 0>>, data |-> <<>>]

\* np.zeros((n, m), dtype=bool) with the entries of `cells` set
Matrix(n, m, cells) ==
    [built |-> TRUE, none |-> FALSE, shape |-> <<n, m>>,
     data |-> [i \in 1..n |-> [j \in 1..m |-> cells[i, j]]]]

\* The entry a capsule of constant radius radius_top would get, for comparison
coverage_entry_top_only(capsule, point) ==
    point_in_tapered_capsule(point, capsule.p1, capsule.p2,
                             capsule.radius_top, capsule.radius_top)

\* The loop body of CoACDCapsulePipeline.build_coverage_matrix (lines 432-441)
coverage_entry(capsule, point) ==
    point_in_tapered_capsule(point, capsule.p1, capsule.p2,
                             capsule.radius_top, capsule.radius_bottom)

\* CoACDCapsulePipeline.build_coverage_matrix
coacd_build_coverage_matrix(caps, points) ==
    Matrix(Len(caps), Len(points),
           [i \in 1..Len(caps), j \in 1..Len(points) |-> coverage_entry(caps[i], points[j])])

\* np.all(point >= center - size / 2) and np.all(point <= center + size / 2),
\* both sides doubled (vrm_to_capsules_pipeline.py:176-185)
in_bone_box(point, center, size) ==
    \A k \in 1..3 :
        /\ 2 * point[k] >= 2 * center[k] - size[k]
        /\ 2 * point[k] <= 2 * center[k] + size[k]

\* VRMCapsulePipeline.build_coverage_matrix: None without witness points,
\* without the constraint file, or when the bone_centers pattern (which needs
\* a non-empty array) does not match; the bones are the file's n_capsules rows.
vrm_build_coverage_matrix(bones, points, file_ok) ==
    IF Len(points) = 0 \/ ~file_ok \/ Len(bones) = 0
    THEN ReturnedNone
    ELSE Matrix(Len(bones), Len(points),
                [j \in 1..Len(bones), i \in 1..Len(points) |->
                    in_bone_box(points[i], bones[j].center, bones[j].size)])

NoProbe == [called |-> FALSE, point |-> Vec(0, 0, 0), capsule |-> CandidatePool[1],
            inside |-> FALSE]

CovInit ==
    /\ capsules \in Runs(CandidatePool, MaxCapsules)
    /\ witness_points \in Runs(WitnessPool, MaxWitness)
    /\ constraints_ok \in BOOLEAN
    /\ coverage_matrix = Unbuilt
    /\ vrm_coverage = Unbuilt
    /\ probe = NoProbe
    /\ FitIdle /\ SkinIdle /\ PipeIdle /\ OptIdle /\ EnhIdle /\ GltfIdle /\ ParseIdle /\ MeshIdle

\* A standalone call of _point_in_tapered_capsule (as in the test suite)
ProbePoint ==
    /\ \E i \in 1..Len(capsules), j \in 1..Len(witness_points) :
          probe' = [called |-> TRUE, point |-> witness_points[j], capsule |-> capsules[i],
                    inside |-> point_in_tapered_capsule(witness_points[j],
                                  capsules[i].p1, capsules[i].p2,
                                  capsules[i].radius_top, capsules[i].radius_bottom)]
    /\ UNCHANGED <<capsules, witness_points, coverage_matrix, vrm_coverage, constraints_ok>>
    /\ CovFrame

CoacdBuildCoverage ==
    /\ coverage_matrix' = coacd_build_coverage_matrix(capsules, witness_points)
    /\ UNCHANGED <<capsules, witness_points, vrm_coverage, probe, constraints_ok>>
    /\ CovFrame

VrmBuildCoverage ==
    /\ vrm_coverage' = vrm_build_coverage_matrix(capsules, witness_points, constraints_ok)
    /\ UNCHANGED <<capsules, witness_points, coverage_matrix, probe, constraints_ok>>
    /\ CovFrame

CovNext == ProbePoint \/ CoacdBuildCoverage \/ VrmBuildCoverage

SpecCoverage == CovInit /\ [][CovNext]_vars

-----------------------------------------------------------------------------
(* The point-in-capsule contract as the specification words it.            *)

\* Some point p1 + (s / L2) (p2 - p1) of the segment, s in 0..L2, is within
\* bound / L2 of q: the closest point of the segment is one of these, since
\* the projection of a grid point has an integer numerator over L2.
SegmentWithin(q, p1, p2, boundL2) ==
    LET lv == Sub(p2, p1)
        L2 == NormSq(lv)
    IN  /\ boundL2 >= 0
        /\ \E s \in 0..L2 :
              NormSq(Sub(Scale(L2, Sub(q, p1)), Scale(s, lv))) <= boundL2 * boundL2

\* r(t) * L2 for t = clamp(dot(q - p1, axis), 0, height) / height
ContractRadiusL2(q, p1, p2, radius_top, radius_bottom) ==
    LET lv == Sub(p2, p1)
        L2 == NormSq(lv)
        tL2 == Clip(Dot(Sub(q, p1), lv), 0, L2)
    IN  radius_bottom * L2 + tL2 * (radius_top - radius_bottom)

ContractInside(q, p1, p2, radius_top, radius_bottom) ==
    IF NormSq(Sub(p2, p1)) = 0
    THEN LET m == Max2(radius_top, radius_bottom)
         IN  m >= 0 /\ NormSq(Sub(q, p1)) <= m * m
    ELSE SegmentWithin(q, p1, p2, ContractRadiusL2(q, p1, p2, radius_top, radius_bottom))

ScenarioB == [p1 |-> Vec(0, 0, 0), p2 |-> Vec(0, 20, 0), radius_top |-> 5, radius_bottom |-> 10]

IsScenarioB(c) ==
    /\ c.p1 = ScenarioB.p1 /\ c.p2 = ScenarioB.p2
    /\ c.radius_top = ScenarioB.radius_top /\ c.radius_bottom = ScenarioB.radius_bottom

\* C1: every call of _point_in_tapered_capsule returns true iff the point is
\* within r(t) of the closest point of the segment p1-p2 (within
\* max(radius_top, radius_bottom) of p1 for a segment of length 0), r(t)
\* running from radius_bottom at p1 to radius_top at p2; for p1 = (0,0,0),
\* p2 = (0,2,0), radius_top = 0.5, radius_bottom = 1.0 the point (0.8,0.1,0)
\* is inside and the point (0.8,1.9,0) is outside.
C1_PointInTaperedCapsule ==
    probe.called =>
        /\ probe.inside <=> ContractInside(probe.point, probe.capsule.p1, probe.capsule.p2,
                                probe.capsule.radius_top, probe.capsule.radius_bottom)
        /\ (IsScenarioB(probe.capsule) /\ probe.point = Vec(8, 1, 0)) => probe.inside
        /\ (IsScenarioB(probe.capsule) /\ probe.point = Vec(8, 19, 0)) => ~probe.inside

C1_Witness ==
    /\ probe.called /\ IsScenarioB(probe.capsule)
    /\ probe.point = Vec(8, 19, 0) /\ ~probe.inside

\* The tapered-capsule reading of an entry: witness j lies inside capsule i
CoversByContract(i, j) ==
    ContractInside(witness_points[j], capsules[i].p1, capsules[i].p2,
                   capsules[i].radius_top, capsules[i].radius_bottom)

\* The bone-box reading of an entry: witness j is within size/2 of the centre
\* of bone i along every axis
CoversByBox(i, j) ==
    \A k \in 1..3 :
        LET d == 2 * (witness_points[j][k] - capsules[i].center[k])
        IN  d <= capsules[i].size[k] /\ -d <= capsules[i].size[k]

OneRowPerCandidate(m) == m.shape = <<Len(capsules), Len(witness_points)>>

EntriesByContract(m) ==
    \A i \in 1..Len(capsules), j \in 1..Len(witness_points) :
        m.data[i][j] <=> CoversByContract(i, j)

EntriesByBox(m) ==
    \A i \in 1..Len(capsules), j \in 1..Len(witness_points) :
        m.data[i][j] <=> CoversByBox(i, j)

C2_Coacd ==
    coverage_matrix.built =>
        /\ ~coverage_matrix.none
        /\ OneRowPerCandidate(coverage_matrix)
        /\ EntriesByContract(coverage_matrix)

-----------------------------------------------------------------------------
(* The capsule fitter: CoACDCapsulePipeline.generate_candidate_capsules,  *)
(* src/coacd_capsule_pipeline.py:313-397.  Cluster coordinates are small   *)
(* integers.  A distance is kept as its square over a denominator, and a   *)
(* percentile as the two order statistics it interpolates between and the  *)
(* interpolation fraction in tenths: the real value is                     *)
(*   sqrt(lo / den) + (frac10 / 10) * (sqrt(hi / den) - sqrt(lo / den)).   *)

MaxHulls == 2

PERCENTILE == 90

Cross(a, b) ==
    <<a[2] * b[3] - a[3] * b[2], a[3] * b[1] - a[1] * b[3], a[1] * b[2] - a[2] * b[1]>>

HullPool ==
    << <<Vec(0, 0, 0), Vec(0, 3, 0), Vec(3, 1, 0), Vec(3, 2, 0)>>,
       <<Vec(0, 0, 0), Vec(2, 0, 0), Vec(1, 1, 0)>>,
       <<Vec(0, 0, 0), Vec(1, 2, 0)>>,
       <<Vec(1, 1, 1), Vec(1, 1, 1), Vec(1, 1, 1), Vec(1, 1, 1)>>,
       <<Vec(0, 1, 0), Vec(1, 0, 0), Vec(1, 3, 0), Vec(2, 2, 0), Vec(3, 1, 0)>>,
       <<Vec(2, 0, 1)>>,
       <<Vec(0, 0, 0), Vec(0, 0, 4), Vec(1, 0, 2), Vec(-1, 0, 2), Vec(0, 1, 2)>>,
       <<Vec(2, 2, 0), Vec(2, 2, 0), Vec(2, 2, 0)>> >>

\* The directions a principal axis is looked for among (it and its opposite)
Dirs == { d \in {-1, 0, 1} \X {-1, 0, 1} \X {-1, 0, 1} : d # <<0, 0, 0>> }

SumSeq(f, n) == LET S[k \in 0..n] == IF k = 0 THEN 0 ELSE S[k - 1] + f[k] IN S[n]

\* n^2 (n - 1) times the covariance matrix of the vertices
Covariance(vertices) ==
    LET n == Len(vertices)
        total == [k \in 1..3 |-> SumSeq([i \in 1..n |-> vertices[i][k]], n)]
        c == [i \in 1..n |-> [k \in 1..3 |-> n * vertices[i][k] - total[k]]]
    IN  [a \in 1..3 |-> [b \in 1..3 |-> SumSeq([i \in 1..n |-> c[i][a] * c[i][b]], n)]]

MatVec(M, d) == [a \in 1..3 |-> M[a][1] * d[1] + M[a][2] * d[2] + M[a][3] * d[3]]

\* d is an eigenvector of C (C d parallel to d) for its largest eigenvalue:
\* (d.Cd) I - (d.d) C is positive semidefinite.  That matrix annihilates d, so
\* its 1x1 and 2x2 principal minors decide.
IsPrincipalAxis(C, d) ==
    LET Cd == MatVec(C, d)
        lam == Dot(d, Cd)
        dd == Dot(d, d)
        M == [a \in 1..3 |-> [b \in 1..3 |-> (IF a = b THEN lam ELSE 0) - dd * C[a][b]]]
    IN  /\ Cross(Cd, <<d[1], d[2], d[3]>>) = <<0, 0, 0>>
        /\ \A a \in 1..3 : M[a][a] >= 0
        /\ \A a \in 1..3, b \in 1..3 : a < b => M[a][a] * M[b][b] - M[a][b] * M[b][a] >= 0

\* PCA(n_components=3).fit raises ValueError unless
\* n_components <= min(n_samples, n_features) (lines 321-322, caught at 392)
pca_fit_raises(vertices) == Len(vertices) < 3

\* pca.components_[0] (line 325): the directions of largest variance; the sign
\* and, among equal variances, the direction are the library's choice
pca_components_0(vertices) == { d \in Dirs : IsPrincipalAxis(Covariance(vertices), d) }

\* np.argmin / np.argmax: the first index attaining the extremum (lines 329-330)
np_argmin(xs) ==
    CHOOSE i \in 1..Len(xs) :
        /\ \A j \in 1..Len(xs) : xs[i] <= xs[j]
        /\ \A j \in 1..(i - 1) : xs[j] > xs[i]

np_argmax(xs) ==
    CHOOSE i \in 1..Len(xs) :
        /\ \A j \in 1..Len(xs) : xs[i] >= xs[j]
        /\ \A j \in 1..(i - 1) : xs[j] < xs[i]

\* direction (line 341) as an unnormalised vector and the square of its length:
\* (p2 - p1) / height is (p2 - p1) over sqrt(h2); [0, 1, 0] when height is 0
fit_direction(p1, p2) ==
    IF NormSq(Sub(p2, p1)) > 0
    THEN [vec |-> Sub(p2, p1), len2 |-> NormSq(Sub(p2, p1))]
    ELSE [vec |-> Vec(0, 1, 0), len2 |-> 1]

\* lines 346-353: the squared distance of the vertex from
\* closest_point = p1 + projection_length * direction, times len2^2; the
\* projection is not clamped
axis_distance(vertex, p1, dir) ==
    LET to_vertex == Sub(vertex, p1)
        proj == Dot(to_vertex, dir.vec)
    IN  NormSq(Sub(Scale(dir.len2, to_vertex), Scale(proj, dir.vec)))

\* Ascending sort (np.percentile sorts its input)
Sorted(xs) ==
    LET n == Len(xs)
        Rank(i) == Cardinality({j \in 1..n : xs[j] < xs[i] \/ (xs[j] = xs[i] /\ j < i)}) + 1
    IN  [r \in 1..n |-> xs[CHOOSE i \in 1..n : Rank(i) = r]]

\* The largest value in place of the percentile, for comparison
np_percentile_as_max(xs, q) ==
    LET sorted == Sorted(xs)
    IN  [lo |-> sorted[Len(xs)], hi |-> sorted[Len(xs)], frac10 |-> 0]

\* np.percentile(xs, q), linear interpolation at position (q / 100) (n - 1)
\* (lines 358-359); q is a multiple of 10
np_percentile(xs, q) ==
    LET sorted == Sorted(xs)
        pos10 == (q \div 10) * (Len(xs) - 1)
        below == pos10 \div 10
        frac10 == pos10 % 10
    IN  [lo |-> sorted[below + 1],
         hi |-> sorted[IF frac10 = 0 THEN below + 1 ELSE below + 2],
         frac10 |-> frac10]

\* One iteration body of the loop (lines 320-389) for a principal axis
fit_capsule(i, vertices, principal_axis) ==
    LET n == Len(vertices)
        projections == [k \in 1..n |-> Dot(vertices[k], principal_axis)]
        p1 == vertices[np_argmin(projections)]
        p2 == vertices[np_argmax(projections)]
        dir == fit_direction(p1, p2)
        distances == [k \in 1..n |-> axis_distance(vertices[k], p1, dir)]
    IN  [id |-> i, p1 |-> p1, p2 |-> p2,
         height2 |-> NormSq(Sub(p2, p1)),
         radius_top |-> np_percentile(distances, PERCENTILE),
         radius_bottom |-> np_percentile(distances, PERCENTILE),
         radius_den |-> dir.len2 * dir.len2,
         principal_axis |-> principal_axis]

FitInit ==
    /\ hulls \in Runs(HullPool, MaxHulls)
    /\ fit_i = 0
    /\ fit_capsules = <<>>
    /\ fit_skipped = {}
    /\ fit_pc = "loop"
    /\ CovIdle /\ SkinIdle /\ PipeIdle /\ OptIdle /\ EnhIdle /\ GltfIdle /\ ParseIdle /\ MeshIdle

\* An iteration that raises: the except branch prints and continues
FitHullRaises ==
    /\ fit_pc = "loop" /\ fit_i < Len(hulls)
    /\ pca_fit_raises(hulls[fit_i + 1])
    /\ fit_skipped' = fit_skipped \cup {fit_i}
    /\ fit_i' = fit_i + 1
    /\ UNCHANGED <<hulls, fit_capsules, fit_pc>>
    /\ FitFrame

\* An iteration that appends a capsule
FitHull ==
    /\ fit_pc = "loop" /\ fit_i < Len(hulls)
    /\ ~pca_fit_raises(hulls[fit_i + 1])
    /\ \E axis \in pca_components_0(hulls[fit_i + 1]) :
          fit_capsules' = Append(fit_capsules, fit_capsule(fit_i, hulls[fit_i + 1], axis))
    /\ fit_i' = fit_i + 1
    /\ UNCHANGED <<hulls, fit_skipped, fit_pc>>
    /\ FitFrame

\* The loop is over: return capsules
FitReturn ==
    /\ fit_pc = "loop" /\ fit_i = Len(hulls)
    /\ fit_pc' = "done"
    /\ UNCHANGED <<hulls, fit_i, fit_capsules, fit_skipped>>
    /\ FitFrame

FitNext == FitHullRaises \/ FitHull \/ FitReturn

SpecFit == FitInit /\ [][FitNext]_vars

-----------------------------------------------------------------------------
(* Claims about the fitter.                                                *)

Coincident(vertices) == \A i \in 1..Len(vertices) : vertices[i] = vertices[1]

\* The clusters the design calls InsufficientGeometry
InsufficientGeometry(vertices) == Len(vertices) < 4 \/ Coincident(vertices)

\* C6: a cluster with fewer than 4 points, or whose points all coincide,
\* fails in the fitter: its iteration is skipped and no candidate carries its
\* index, while the loop goes on to the remaining clusters.
C6_InsufficientGeometrySkipped ==
    \A i \in 0..(fit_i - 1) :
        InsufficientGeometry(hulls[i + 1]) =>
            /\ i \in fit_skipped
            /\ \A k \in 1..Len(fit_capsules) : fit_capsules[k].id # i

\* The k-th smallest of xs, without sorting
OrderStat(xs, k) ==
    CHOOSE x \in {xs[j] : j \in 1..Len(xs)} :
        /\ Cardinality({j \in 1..Len(xs) : xs[j] < x}) < k
        /\ k <= Cardinality({j \in 1..Len(xs) : xs[j] <= x})

\* Squared distance from v to the line through p1 and p2, times |p2 - p1|^2
\* (through p1 along +Y, times 1, when p1 = p2)
LineDist2(v, p1, p2) ==
    IF p1 = p2
    THEN (v[1] - p1[1]) * (v[1] - p1[1]) + (v[3] - p1[3]) * (v[3] - p1[3])
    ELSE NormSq(Cross(Sub(v, p1), Sub(p2, p1)))

\* Squared distance from v to the segment p1-p2, times |p2 - p1|^4 (times 1
\* when p1 = p2): the least over the points p1 + (s / h2) (p2 - p1)
SegmentDist2(v, p1, p2) ==
    LET D == Sub(p2, p1)
        h2 == NormSq(D)
        at(s) == NormSq(Sub(Scale(h2, Sub(v, p1)), Scale(s, D)))
    IN  IF h2 = 0 THEN NormSq(Sub(v, p1))
        ELSE CHOOSE m \in {at(s) : s \in 0..h2} : \A s \in 0..h2 : m <= at(s)

\* radius = the 90th percentile of the distances whose squares are
\* dist2[k] / den: the same interpolation position and the same two order
\* statistics (the square root is increasing, so it keeps the order)
IsPercentile90(radius, radius_den, dist2, den) ==
    LET n == Len(dist2)
        below == (9 * (n - 1)) \div 10
        frac10 == (9 * (n - 1)) % 10
    IN  /\ radius.frac10 = frac10
        /\ radius.lo * den = OrderStat(dist2, below + 1) * radius_den
        /\ radius.hi * den = OrderStat(dist2, IF frac10 = 0 THEN below + 1 ELSE below + 2) * radius_den

H2OrOne(c) == IF c.p1 = c.p2 THEN 1 ELSE NormSq(Sub(c.p2, c.p1))

CapsuleShape(c) ==
    /\ c.height2 = NormSq(Sub(c.p2, c.p1))
    /\ c.radius_top = c.radius_bottom
    /\ c.radius_top.lo >= 0 /\ c.radius_top.hi >= c.radius_top.lo /\ c.radius_den > 0
    /\ \E a \in 1..Len(hulls[c.id + 1]), b \in 1..Len(hulls[c.id + 1]) :
          c.p1 = hulls[c.id + 1][a] /\ c.p2 = hulls[c.id + 1][b]

\* C7 as amended: for every candidate the fitter produces, radius_top =
\* radius_bottom = the 90th percentile over the points of the cluster of the
\* distance from the point to the infinite line through p1 and p2 (the
\* projection parameter is not clamped; the line through p1 along +Y when
\* p1 = p2); height = |p2 - p1| and both radii are >= 0.
C7_RadiusIsPercentileOfLineDistance ==
    \A k \in 1..Len(fit_capsules) :
        LET c == fit_capsules[k]
            V == hulls[c.id + 1]
        IN  /\ CapsuleShape(c)
            /\ IsPercentile90(c.radius_top, c.radius_den,
                              [j \in 1..Len(V) |-> LineDist2(V[j], c.p1, c.p2)], H2OrOne(c))

\* C7 as claimed: the percentile is taken over the distances to the segment
\* p1-p2, the projection parameter clamped to [0, height].
C7_AsClaimed ==
    \A k \in 1..Len(fit_capsules) :
        LET c == fit_capsules[k]
            V == hulls[c.id + 1]
        IN  /\ CapsuleShape(c)
            /\ IsPercentile90(c.radius_top, c.radius_den,
                              [j \in 1..Len(V) |-> SegmentDist2(V[j], c.p1, c.p2)],
                              H2OrOne(c) * H2OrOne(c))

\* A candidate of a cluster of 4 points or more whose percentile interpolates
\* between two different distances and one of whose points projects past an
\* end of the segment
C7_Witness ==
    \E k \in 1..Len(fit_capsules) :
        LET c == fit_capsules[k]
            V == hulls[c.id + 1]
        IN  /\ Len(V) >= 4 /\ c.p1 # c.p2
            /\ c.radius_top.frac10 # 0 /\ c.radius_top.lo < c.radius_top.hi
            /\ \E j \in 1..Len(V) : Dot(Sub(V[j], c.p1), Sub(c.p2, c.p1)) > c.height2

-----------------------------------------------------------------------------
(* Weight transfer and smoothing: CapsuleSkinningSystem.                   *)
(*                                                                         *)
(* A weight row is a record [w, d]: the four slots hold w[k] / d, kept in  *)
(* lowest terms, so that a row sums to 1 exactly when its numerators sum   *)
(* to d.  The rounding of float32 is not modelled.                         *)

MaxOrig == 2

\* smoothing_lambda = 0.1 (line 29): the rows of (L + 0.1 M)^-1 M sum to 10
LAMBDA_INV == 10

MAX_INFLUENCES == 4

\* iterations: int = 5 (line 141)
SIMPLE_ITERATIONS == 5

\* 0.7 * weights[i] + 0.3 * neighbor_weights (line 173), in tenths
SELF_TENTHS == 7

NEIGHBOR_TENTHS == 3

\* The denominator of the source weights: they are given in thousandths
THOUSAND == 1000

Slots == 1..MAX_INFLUENCES

RECURSIVE GCD(_, _)
GCD(a, b) == IF b = 0 THEN a ELSE GCD(b, a % b)

LCM(a, b) == (a \div GCD(a, b)) * b

ZeroRow == [w |-> <<0, 0, 0, 0>>, d |-> 1]

RowSum(row) == SumSeq(row.w, MAX_INFLUENCES)

Reduce(row) ==
    LET g == GCD(GCD(GCD(row.w[1], row.w[2]), GCD(row.w[3], row.w[4])), row.d)
    IN  [w |-> [k \in Slots |-> row.w[k] \div g], d |-> row.d \div g]

\* row / np.maximum(row.sum(), 1e-10): a sum of 0 is replaced by 1e-10 and the
\* row stays all zero; every positive sum on this grid exceeds 1e-10
normalize_row(row) ==
    IF RowSum(row) = 0 THEN ZeroRow ELSE Reduce([w |-> row.w, d |-> RowSum(row)])

\* np.clip(row, 0.0, 1.0)
clip_row(row) == [w |-> [k \in Slots |-> Clip(row.w[k], 0, row.d)], d |-> row.d]

\* np.argsort(ws)[::-1]: the stable ascending order read backwards, so that of
\* two equal weights the one in the later slot comes first
argsort_reversed(ws) ==
    CHOOSE p \in Permutations(Slots) :
        \A a, b \in Slots :
            a < b => \/ ws[p[a]] > ws[p[b]]
                     \/ (ws[p[a]] = ws[p[b]] /\ p[a] > p[b])

\* The top max_influences weights in descending order; a weight that is not
\* > 0.001 leaves its slot, and the slot of its index, at 0
top_influences(ws, ids, den) ==
    LET order == argsort_reversed(ws)
        \* w / den > 0.001, for integers the same as w > den \div 1000
        kept(j) == ws[order[j]] > den \div THOUSAND
    IN  [weights |-> [w |-> [j \in Slots |-> IF kept(j) THEN ws[order[j]] ELSE 0],
                      d |-> den],
         indices |-> [j \in Slots |-> IF kept(j) THEN ids[order[j]] ELSE 0]]

\* np.argmin(cdist(capsule_vertices, original_vertices), axis=1)[i]
closest_index(vertex, orig) ==
    np_argmin([m \in 1..Len(orig) |-> NormSq(Sub(vertex, orig[m].position))])

transfer_weights_closest_point(cverts, orig) ==
    [i \in 1..Len(cverts) |->
        LET o == orig[closest_index(cverts[i], orig)]
            t == top_influences(o.bone_weights, o.bone_indices, THOUSAND)
        IN  [weights |-> normalize_row(t.weights), indices |-> t.indices]]

\* adjacency[i] (lines 158-163): the other corners of the faces that hold i
adjacency(faces, i) ==
    {faces[x[1]][x[2]] :
        x \in {y \in (1..Len(faces)) \X (1..3) :
                  \E a \in 1..3 : a # y[2] /\ faces[y[1]][a] = i}}

\* The rows brought to one common denominator
CommonDen(W) ==
    LET F[k \in 0..Len(W)] == IF k = 0 THEN 1 ELSE LCM(F[k - 1], W[k].d)
    IN  F[Len(W)]

Numerators(W, den) ==
    [i \in 1..Len(W) |-> [k \in Slots |-> W[i].w[k] * (den \div W[i].d)]]

RECURSIVE SumOver(_, _, _)
SumOver(S, A, k) ==
    IF S = {} THEN 0
    ELSE LET j == CHOOSE x \in S : TRUE IN A[j][k] + SumOver(S \ {j}, A, k)

\* One pass of the loop of _smooth_weights_simple (lines 167-178)
simple_pass(W, faces) ==
    LET den == CommonDen(W)
        A == Numerators(W, den)
        new_weights(i) ==
            LET adj == adjacency(faces, i)
                n == Cardinality(adj)
            IN  IF n > 0
                THEN [w |-> [k \in Slots |->
                                SELF_TENTHS * n * A[i][k]
                                + NEIGHBOR_TENTHS * SumOver(adj, A, k)],
                      d |-> (SELF_TENTHS + NEIGHBOR_TENTHS) * n * den]
                ELSE W[i]
    IN  [i \in 1..Len(W) |-> normalize_row(new_weights(i))]

\* _smooth_weights_simple with a loop that tests its count after the pass
RECURSIVE smooth_weights_simple_pass_first(_, _, _)
smooth_weights_simple_pass_first(W, faces, iterations) ==
    IF iterations <= 1 THEN simple_pass(W, faces)
    ELSE smooth_weights_simple_pass_first(simple_pass(W, faces), faces, iterations - 1)

RECURSIVE smooth_weights_simple(_, _, _)
smooth_weights_simple(W, faces, iterations) ==
    IF iterations = 0 THEN W
    ELSE smooth_weights_simple(simple_pass(W, faces), faces, iterations - 1)

\* spsolve(L + 0.1 M, M w) for every channel (lines 105-120).  L is the
\* Laplacian of the intrinsic Delaunay triangulation, whose edge weights are
\* nonnegative, and M is a positive diagonal: (L + 0.1 M)^-1 M has nonnegative
\* entries and rows that sum to 10.  Which such matrix it is depends on the
\* geometry; `mix` is the entry between two adjacent vertices.
MixLevels == {1, 3}

laplacian_solve(W, faces, mix) ==
    LET den == CommonDen(W)
        A == Numerators(W, den)
    IN  [i \in 1..Len(W) |->
            LET adj == adjacency(faces, i)
                n == Cardinality(adj)
            IN  [w |-> [k \in Slots |->
                           (LAMBDA_INV - mix * n) * A[i][k] + mix * SumOver(adj, A, k)],
                 d |-> den]]

\* The try branch of smooth_weights_robust_laplacian: solve, normalise, clip
robust_laplacian_pass(W, faces, mix) ==
    [i \in 1..Len(W) |-> clip_row(normalize_row(laplacian_solve(W, faces, mix)[i]))]

\* The system is defined when every vertex lies on a face; otherwise
\* L + 0.1 M has a zero row and the call ends in the except branch
laplacian_defined(cverts, faces) ==
    \A i \in 1..Len(cverts) : adjacency(faces, i) # {}

prepare_skinning_data(W, ids) ==
    [i \in 1..Len(W) |->
        LET t == top_influences(W[i].w, ids[i], W[i].d)
        IN  [joints |-> t.indices, weights |-> normalize_row(t.weights)]]

\* ---- inputs ----
WeightPool ==
    { <<1000, 0, 0, 0>>, <<300, 0, 700, 0>>, <<0, 0, 0, 0>>,
      <<1, 1, 0, 0>>, <<500, 500, 0, 0>> }

OrigVertex(m, ws) ==
    [position |-> Vec(6 * (m - 1), 0, 0), bone_weights |-> ws,
     bone_indices |-> <<m, m + 1, m + 2, 0>>]

OrigMeshes ==
    UNION { { [m \in 1..n |-> OrigVertex(m, f[m])] : f \in [1..n -> WeightPool] }
            : n \in 1..MaxOrig }

CapsuleMeshPool ==
    { [vertices |-> <<Vec(0, 0, 0), Vec(5, 0, 0), Vec(2, 1, 0)>>, faces |-> <<>>],
      [vertices |-> <<Vec(0, 0, 0), Vec(5, 0, 0), Vec(2, 1, 0)>>,
       faces |-> << <<1, 2, 3>> >>] }

SmoothingPasses == {0, 1}

SkinInit ==
    /\ original_mesh_data \in OrigMeshes
    /\ \E mesh \in CapsuleMeshPool :
          capsule_vertices = mesh.vertices /\ capsule_faces = mesh.faces
    /\ ROBUST_LAPLACIAN_AVAILABLE \in BOOLEAN
    /\ smoothing_iterations \in SmoothingPasses
    /\ initial_weights = <<>> /\ smooth_weights = <<>> /\ bone_indices = <<>>
    /\ smooth_i = 0 /\ last_strategy = "none"
    /\ joints_data = <<>> /\ weights_data = <<>>
    /\ skin_pc = "start"
    /\ CovIdle /\ FitIdle /\ PipeIdle /\ OptIdle /\ EnhIdle /\ GltfIdle /\ ParseIdle /\ MeshIdle

\* transfer_and_smooth_capsule_weights, step 1 (lines 400-407)
TransferWeights ==
    /\ skin_pc = "start"
    /\ LET t == transfer_weights_closest_point(capsule_vertices, original_mesh_data)
       IN  /\ initial_weights' = [i \in 1..Len(t) |-> t[i].weights]
           /\ smooth_weights' = [i \in 1..Len(t) |-> t[i].weights]
           /\ bone_indices' = [i \in 1..Len(t) |-> t[i].indices]
    /\ skin_pc' = "smoothing"
    /\ UNCHANGED <<original_mesh_data, capsule_vertices, capsule_faces,
                   ROBUST_LAPLACIAN_AVAILABLE, smoothing_iterations, smooth_i,
                   last_strategy, joints_data, weights_data>>
    /\ SkinFrame

\* One pass of the loop at lines 408-412 that returns from the try branch
SmoothRobustLaplacian ==
    /\ skin_pc = "smoothing" /\ smooth_i < smoothing_iterations
    /\ ROBUST_LAPLACIAN_AVAILABLE
    /\ laplacian_defined(capsule_vertices, capsule_faces)
    /\ \E mix \in MixLevels :
          smooth_weights' = robust_laplacian_pass(smooth_weights, capsule_faces, mix)
    /\ smooth_i' = smooth_i + 1
    /\ last_strategy' = "laplacian"
    /\ UNCHANGED <<original_mesh_data, capsule_vertices, capsule_faces,
                   ROBUST_LAPLACIAN_AVAILABLE, smoothing_iterations,
                   initial_weights, bone_indices, joints_data, weights_data, skin_pc>>
    /\ SkinFrame

\* One pass that returns from _smooth_weights_simple: the library is missing
\* (line 101) or the try branch raised (line 135)
SmoothSimple ==
    /\ skin_pc = "smoothing" /\ smooth_i < smoothing_iterations
    /\ smooth_weights' =
          smooth_weights_simple(smooth_weights, capsule_faces, SIMPLE_ITERATIONS)
    /\ smooth_i' = smooth_i + 1
    /\ last_strategy' = "simple"
    /\ UNCHANGED <<original_mesh_data, capsule_vertices, capsule_faces,
                   ROBUST_LAPLACIAN_AVAILABLE, smoothing_iterations,
                   initial_weights, bone_indices, joints_data, weights_data, skin_pc>>
    /\ SkinFrame

\* return smooth_weights, bone_indices (line 416)
SmoothReturn ==
    /\ skin_pc = "smoothing" /\ smooth_i = smoothing_iterations
    /\ skin_pc' = "returned"
    /\ UNCHANGED <<original_mesh_data, capsule_vertices, capsule_faces,
                   ROBUST_LAPLACIAN_AVAILABLE, smoothing_iterations,
                   initial_weights, smooth_weights, bone_indices, smooth_i,
                   last_strategy, joints_data, weights_data>>
    /\ SkinFrame

\* The caller packs the result for export
PrepareSkinningData ==
    /\ skin_pc = "returned"
    /\ LET packed == prepare_skinning_data(smooth_weights, bone_indices)
       IN  /\ joints_data' = [i \in 1..Len(packed) |-> packed[i].joints]
           /\ weights_data' = [i \in 1..Len(packed) |-> packed[i].weights]
    /\ skin_pc' = "packed"
    /\ UNCHANGED <<original_mesh_data, capsule_vertices, capsule_faces,
                   ROBUST_LAPLACIAN_AVAILABLE, smoothing_iterations,
                   initial_weights, smooth_weights, bone_indices, smooth_i,
                   last_strategy>>
    /\ SkinFrame

SkinNext ==
    \/ TransferWeights
    \/ SmoothRobustLaplacian
    \/ SmoothSimple
    \/ SmoothReturn
    \/ PrepareSkinningData

SpecSkin == SkinInit /\ [][SkinNext]_vars

-----------------------------------------------------------------------------
(* Claims about weight transfer and smoothing.                             *)

SumsToOne(row) == RowSum(row) = row.d

InUnitInterval(row) == \A k \in Slots : 0 <= row.w[k] /\ row.w[k] <= row.d

NonzeroEntries(row) == Cardinality({k \in DOMAIN row.w : row.w[k] # 0})

\* Every weight copied from the nearest source vertex is 0 or <= 0.001
ZeroInfluence(i) ==
    LET o == original_mesh_data[closest_index(capsule_vertices[i], original_mesh_data)]
    IN  \A k \in Slots : o.bone_weights[k] * THOUSAND <= THOUSAND

\* C3: every vertex record produced by transfer_and_smooth_capsule_weights and
\* packed by prepare_skinning_data has weights that sum to 1 and at most four
\* nonzero entries.
C3_PackedWeightsSumToOne ==
    skin_pc = "packed" =>
        \A i \in 1..Len(weights_data) :
            SumsToOne(weights_data[i]) /\ NonzeroEntries(weights_data[i]) <= 4

\* C4: on exit from either smoothing strategy the weights of every vertex sum
\* to 1 and every weight lies in [0, 1].
C4_SmoothingExitNormalized ==
    last_strategy \in {"laplacian", "simple"} =>
        \A i \in 1..Len(smooth_weights) :
            SumsToOne(smooth_weights[i]) /\ InUnitInterval(smooth_weights[i])

\* C5: a vertex with zero influence before normalisation is resolved to a safe
\* default: the weights transfer gives it, and the weights it is packed with,
\* sum to 1 instead of remaining all zero.
C5_ZeroInfluenceResolved ==
    \A i \in 1..Len(capsule_vertices) :
        ZeroInfluence(i) =>
            /\ skin_pc # "start" => SumsToOne(initial_weights[i])
            /\ (skin_pc = "packed" /\ smoothing_iterations = 0)
                  => SumsToOne(weights_data[i])

-----------------------------------------------------------------------------
(* CoACDCapsulePipeline.run_complete_pipeline and the steps it calls.      *)
(* A hull is known by the number of its vertices, a capsule by the         *)
(* position of its hull, a results file by the selection that              *)
(* process_results reads from it.                                          *)

MaxBones == 2

\* len(vertex_indices) < 10 (line 235)
MIN_BONE_VERTICES == 10

\* len(vertices) < 4 (line 172)
MIN_COACD_VERTICES == 4

GroupSizes == {9, 12}

MeshSizes == {3, 12}

\* How one coacd call ends: it raises, or it returns one part or two
DecompOutcomes == {"raises", "whole", "split"}

PointCloud(n) == [k \in 1..n |-> Vec(k, 0, 0)]

\* The hulls made from one vertex set (lines 204-210, 282-290): the parts of
\* the decomposition, or the whole set as a single hull when the call raised
hulls_of(group, n, outcome) ==
    LET parts == IF outcome = "split" THEN <<n - 6, 6>> ELSE <<n>>
    IN  [k \in 1..Len(parts) |->
            [size |-> parts[k], group |-> group, fallback |-> outcome = "raises"]]

run_coacd_global(n, importable, mesh_raises, outcome) ==
    IF ~importable THEN <<>>
    ELSE IF n < MIN_COACD_VERTICES THEN <<>>
    ELSE IF mesh_raises THEN <<>>
    ELSE hulls_of(0, n, outcome)

run_coacd_per_bone(groups, importable, outcomes) ==
    LET H[g \in 0..Len(groups)] ==
            IF g = 0 THEN <<>>
            ELSE IF groups[g] < MIN_BONE_VERTICES THEN H[g - 1]
            ELSE H[g - 1] \o hulls_of(g, groups[g], outcomes[g])
    IN  IF ~importable THEN <<>> ELSE H[Len(groups)]

\* generate_candidate_capsules: the hulls on which the fit does not raise
candidate_ids(hs) ==
    LET C[i \in 0..Len(hs)] ==
            IF i = 0 THEN <<>>
            ELSE IF pca_fit_raises(PointCloud(hs[i].size)) THEN C[i - 1]
            ELSE Append(C[i - 1], i)
    IN  C[Len(hs)]

\* A results file and what process_results finds in it: the entries of a
\* 'Capsule indices: [...]' line, or no selection at all
FileWith(origin, indices) ==
    [exists |-> TRUE, origin |-> origin, found |-> indices # {}, indices |-> indices]

\* What the solver can leave in the file it was told to write
SolverContents(n) == {FileWith("solver", S) : S \in {{}, {1}, 1..n}}

\* process_results (lines 604-675): the positions in `capsules` that are
\* written to the glTF file, or "raised" when the results file cannot be opened
process_results(caps, file) ==
    IF ~file.exists THEN [ok |-> FALSE, selected |-> {}]
    ELSE IF file.found
         THEN [ok |-> TRUE, selected |-> {i \in file.indices : 1 <= i /\ i <= Len(caps)}]
         ELSE [ok |-> TRUE, selected |-> 1..Len(caps)]

PipeInit ==
    /\ mesh_vertices \in MeshSizes
    /\ bone_vertex_groups \in SeqsUpTo(GroupSizes, MaxBones)
    /\ coacd_importable \in BOOLEAN
    /\ model_file_exists \in BOOLEAN
    /\ results_file \in {NoFile, FileWith("stale", {1})}
    /\ gltf_file = NoFile
    /\ pipe_hulls = <<>> /\ pipe_capsules = <<>>
    /\ decomposer_failures = {} /\ solver_event = "not_run"
    /\ pipe_stages = <<>> /\ pipe_pc = "load" /\ pipe_result = "running"
    /\ CovIdle /\ FitIdle /\ SkinIdle /\ OptIdle /\ EnhIdle /\ GltfIdle /\ ParseIdle /\ MeshIdle

\* A step returns: the run goes on to `next`, or ends with False
Proceed(stage, ok, next) ==
    /\ pipe_stages' = Append(pipe_stages, stage)
    /\ pipe_pc' = IF ok THEN next ELSE "done"
    /\ pipe_result' = IF ok THEN "running" ELSE "failed"

\* Step 1 (lines 685-688)
LoadMeshData ==
    /\ pipe_pc = "load"
    /\ \E ok \in BOOLEAN : Proceed("load", ok, "decompose")
    /\ UNCHANGED <<mesh_vertices, bone_vertex_groups, coacd_importable,
                   model_file_exists, results_file, gltf_file, pipe_hulls,
                   pipe_capsules, decomposer_failures, solver_event>>
    /\ PipeFrame

\* Step 2 without bone groups (lines 158-159, 161-219, 716-719)
RunCoacdGlobal ==
    /\ pipe_pc = "decompose" /\ bone_vertex_groups = <<>>
    /\ \E mesh_raises \in BOOLEAN, outcome \in DecompOutcomes :
          LET called == coacd_importable /\ mesh_vertices >= MIN_COACD_VERTICES
              hs == run_coacd_global(mesh_vertices, coacd_importable,
                                     mesh_raises, outcome)
          IN  /\ pipe_hulls' = hs
              /\ decomposer_failures' =
                    (IF coacd_importable THEN {} ELSE {"import_error"})
                    \cup (IF called /\ mesh_raises THEN {"mesh_raised"} ELSE {})
                    \cup (IF called /\ ~mesh_raises /\ outcome = "raises"
                          THEN {"run_raised"} ELSE {})
              /\ Proceed("decompose", hs # <<>>, "fit")
    /\ UNCHANGED <<mesh_vertices, bone_vertex_groups, coacd_importable,
                   model_file_exists, results_file, gltf_file, pipe_capsules,
                   solver_event>>
    /\ PipeFrame

\* Step 2 with bone groups (lines 155-156, 221-311, 716-719)
RunCoacdPerBone ==
    /\ pipe_pc = "decompose" /\ bone_vertex_groups # <<>>
    /\ \E outcomes \in [1..Len(bone_vertex_groups) -> DecompOutcomes] :
          LET hs == run_coacd_per_bone(bone_vertex_groups, coacd_importable, outcomes)
              raised == \E g \in 1..Len(bone_vertex_groups) :
                            /\ bone_vertex_groups[g] >= MIN_BONE_VERTICES
                            /\ outcomes[g] = "raises"
          IN  /\ pipe_hulls' = hs
              /\ decomposer_failures' =
                    IF ~coacd_importable THEN {"import_error"}
                    ELSE IF raised THEN {"run_raised"} ELSE {}
              /\ Proceed("decompose", hs # <<>>, "fit")
    /\ UNCHANGED <<mesh_vertices, bone_vertex_groups, coacd_importable,
                   model_file_exists, results_file, gltf_file, pipe_capsules,
                   solver_event>>
    /\ PipeFrame

\* Step 3 (lines 724-727)
GenerateCandidateCapsules ==
    /\ pipe_pc = "fit"
    /\ pipe_capsules' = candidate_ids(pipe_hulls)
    /\ Proceed("fit", candidate_ids(pipe_hulls) # <<>>, "sample")
    /\ UNCHANGED <<mesh_vertices, bone_vertex_groups, coacd_importable,
                   model_file_exists, results_file, gltf_file, pipe_hulls,
                   decomposer_failures, solver_event>>
    /\ PipeFrame

\* Step 4 (lines 732-735): sample_witness_points always returns points
SampleWitnessPoints ==
    /\ pipe_pc = "sample"
    /\ Proceed("sample", TRUE, "coverage")
    /\ UNCHANGED <<mesh_vertices, bone_vertex_groups, coacd_importable,
                   model_file_exists, results_file, gltf_file, pipe_hulls,
                   pipe_capsules, decomposer_failures, solver_event>>
    /\ PipeFrame

\* Step 5 (lines 740-743): build_coverage_matrix always returns a matrix
BuildCoverageMatrix ==
    /\ pipe_pc = "coverage"
    /\ Proceed("coverage", TRUE, "data")
    /\ UNCHANGED <<mesh_vertices, bone_vertex_groups, coacd_importable,
                   model_file_exists, results_file, gltf_file, pipe_hulls,
                   pipe_capsules, decomposer_failures, solver_event>>
    /\ PipeFrame

\* Step 6 (lines 748-751): writing the data file succeeds or raises
CreateMinizincDataFile ==
    /\ pipe_pc = "data"
    /\ \E ok \in BOOLEAN : Proceed("data", ok, "solve")
    /\ UNCHANGED <<mesh_vertices, bone_vertex_groups, coacd_importable,
                   model_file_exists, results_file, gltf_file, pipe_hulls,
                   pipe_capsules, decomposer_failures, solver_event>>
    /\ PipeFrame

\* How subprocess.run ends in run_minizinc_optimization (lines 584-602):
\* return code 0, another return code, TimeoutExpired, FileNotFoundError
SolverOutcomes == {"ok", "error", "timeout", "missing"}

\* Step 7 when the model file exists (lines 759-764).  Either way the run goes
\* on to step 8; only the solver writes the results file here.  A solver that
\* ran and failed may or may not have written to its -o file before it ended;
\* one that was never started has written nothing.
RunMinizincOptimization ==
    /\ pipe_pc = "solve" /\ model_file_exists
    /\ \E outcome \in SolverOutcomes, wrote \in BOOLEAN,
          content \in SolverContents(Len(pipe_capsules)) :
          /\ solver_event' = outcome
          /\ results_file' =
                IF outcome = "ok" \/ (outcome \in {"error", "timeout"} /\ wrote)
                THEN content ELSE results_file
    /\ Proceed("solve", TRUE, "process")
    /\ UNCHANGED <<mesh_vertices, bone_vertex_groups, coacd_importable,
                   model_file_exists, gltf_file, pipe_hulls, pipe_capsules,
                   decomposer_failures>>
    /\ PipeFrame

\* Step 7 when the model file does not exist (lines 765-775): the results
\* file is written with every capsule selected
WriteAllSelected ==
    /\ pipe_pc = "solve" /\ ~model_file_exists
    /\ results_file' = FileWith("pipeline", 1..Len(pipe_capsules))
    /\ Proceed("solve", TRUE, "process")
    /\ UNCHANGED <<mesh_vertices, bone_vertex_groups, coacd_importable,
                   model_file_exists, gltf_file, pipe_hulls, pipe_capsules,
                   decomposer_failures, solver_event>>
    /\ PipeFrame

\* Step 8 and the return of run_complete_pipeline (lines 780-792)
ProcessResults ==
    /\ pipe_pc = "process"
    /\ LET r == process_results(pipe_capsules, results_file)
       IN  /\ gltf_file' = IF r.ok THEN FileWith("pipeline", r.selected) ELSE gltf_file
           /\ pipe_stages' = Append(pipe_stages, "process")
           /\ pipe_pc' = "done"
           /\ pipe_result' = IF r.ok THEN "ok" ELSE "failed"
    /\ UNCHANGED <<mesh_vertices, bone_vertex_groups, coacd_importable,
                   model_file_exists, results_file, pipe_hulls, pipe_capsules,
                   decomposer_failures, solver_event>>
    /\ PipeFrame

PipeNext ==
    \/ LoadMeshData
    \/ RunCoacdGlobal
    \/ RunCoacdPerBone
    \/ GenerateCandidateCapsules
    \/ SampleWitnessPoints
    \/ BuildCoverageMatrix
    \/ CreateMinizincDataFile
    \/ RunMinizincOptimization
    \/ WriteAllSelected
    \/ ProcessResults

SpecPipeline == PipeInit /\ [][PipeNext]_vars

-----------------------------------------------------------------------------
(* Claims about the pipeline's handling of the solver and the decomposer.  *)

FailedAt(stage) ==
    pipe_result = "failed" /\ pipe_stages[Len(pipe_stages)] = stage

\* C8: when the solver is missing, times out or returns an error, the run
\* accepts all candidates: run_complete_pipeline returns True and the output
\* holds every candidate capsule.
C8_SolverFailureAcceptsAll ==
    (pipe_pc = "done" /\ solver_event \in {"missing", "timeout", "error"}) =>
        /\ pipe_result = "ok"
        /\ gltf_file.exists /\ gltf_file.indices = 1..Len(pipe_capsules)

\* There is something to decompose: the global mesh, or some bone group, is
\* large enough to be handed to the decomposer
Decomposable ==
    IF bone_vertex_groups = <<>>
    THEN mesh_vertices >= MIN_COACD_VERTICES
    ELSE \E g \in 1..Len(bone_vertex_groups) :
            bone_vertex_groups[g] >= MIN_BONE_VERTICES

\* C9: when the decomposer cannot be imported or its call raises, the vertex
\* set is kept as one cluster (or the group is skipped) and the run does not
\* end at the decomposition step because of it.
C9_DecomposerFailureDegrades ==
    (decomposer_failures # {} /\ Decomposable) => ~FailedAt("decompose")

-----------------------------------------------------------------------------
(* VRMCapsulePipeline.run_optimization and run_single_optimization.        *)
(* Times are in seconds.  opt_results_file is 0 while self.results_file    *)
(* holds no solver output, -1 for a file left by an earlier run, and       *)
(* otherwise the capsule count of the attempt that wrote it.               *)

MaxCapsulesPool == {1, 5, 8, 11, 20, 35}

TimeoutPool == {5, 30, 100}

\* subprocess.run(..., timeout=timeout + 10) (line 309)
GRACE_SECONDS == 10

\* run_single_optimization(1, 15, "gecode") (line 411)
FALLBACK_TIMEOUT == 15

FALLBACK_CAPSULES == 1

Min2(a, b) == IF a <= b THEN a ELSE b

\* capsule_counts (lines 361-368)
capsule_counts(max_capsules) ==
    IF max_capsules <= 5 THEN <<max_capsules>>
    ELSE IF max_capsules <= 10 THEN <<3, 5, max_capsules>>
    ELSE IF max_capsules <= 25 THEN <<3, 5, 8, 12, max_capsules>>
    ELSE <<3, 5, 8, 12, 20, 30, max_capsules>>

\* get_timeout (lines 371-379)
get_timeout(capsule_count, timeout) ==
    IF capsule_count <= 5 THEN Min2(timeout, 15)
    ELSE IF capsule_count <= 10 THEN Min2(timeout, 30)
    ELSE IF capsule_count <= 20 THEN Min2(timeout, 60)
    ELSE timeout

\* The solver invocation of run_single_optimization (lines 299-309): the
\* solver is asked to stop after timeout * 1000 ms and the process is killed
\* after timeout + 10 s
solver_invocation(capsule_count, timeout, fallback, outcome) ==
    [capsule_count |-> capsule_count,
     timeout |-> timeout,
     time_limit_ms |-> timeout * 1000,
     process_limit |-> timeout + GRACE_SECONDS,
     fallback |-> fallback,
     success |-> outcome = "success"]

\* A solver data file with n rows in every per-bone array
DataFile(n, coverage) ==
    [exists |-> TRUE, n_capsules |-> n, rows |-> n, coverage |-> coverage,
     coverage_rows |-> IF coverage THEN n ELSE 0]

\* generate_capsule_constraints: significant_bones = prioritized_bones[:max_capsules]
\* and n_capsules = len(significant_bones) (capsule_generator.py lines 167-174)
save_gecode_data(max_capsules) == DataFile(Min2(max_capsules, significant_bones), FALSE)

\* The temporary data file of an attempt (lines 259-289): the enhanced file
\* with its n_capsules line rewritten, or fresh data for capsule_count
temp_constraints(capsule_count) ==
    IF enhanced_attr /\ opt_enhanced_file.exists
    THEN [opt_enhanced_file EXCEPT !.n_capsules = capsule_count]
    ELSE save_gecode_data(capsule_count)

\* How run_single_optimization can end: it returns before the solver is
\* started (the VRM file cannot be reloaded, the model file is missing), it
\* raises AttributeError at line 274 when self.enhanced_constraints_file was
\* never set, or it ends as the solver call ends
AttemptOutcomes ==
    IF ~vrm_reloadable THEN {"not_invoked"}
    ELSE IF ~enhanced_attr THEN {"raised"}
    ELSE IF ~opt_model_exists THEN {"not_invoked"}
    ELSE {"success", "no_solution", "error", "timeout", "missing"}

\* The same call, were a timeout to remove the results file, for comparison
SingleOptimizationClearing(capsule_count, timeout, fallback, outcome) ==
    /\ last_outcome' = outcome
    /\ attempts' = IF outcome \in {"not_invoked", "raised"} THEN attempts
                   ELSE Append(attempts,
                               solver_invocation(capsule_count, timeout, fallback, outcome))
    /\ opt_results_file' = IF outcome = "success" THEN capsule_count
                           ELSE IF outcome = "timeout" THEN 0
                           ELSE opt_results_file
    /\ attempt_data' = IF vrm_reloadable /\ enhanced_attr
                       THEN [capsule_count |-> capsule_count,
                             data |-> temp_constraints(capsule_count)]
                       ELSE attempt_data
    /\ temp_left' = IF vrm_reloadable /\ enhanced_attr /\ ~opt_model_exists
                    THEN temp_left \cup {capsule_count} ELSE temp_left
    /\ UNCHANGED <<opt_constraints_file, opt_enhanced_file>>

\* What one call of run_single_optimization does to the state: the results
\* file is written on success only (lines 316-325); the temporary data file
\* is written once the VRM file is reloaded and removed in the finally block,
\* which the return at line 293 (model file missing) does not reach
SingleOptimization(capsule_count, timeout, fallback, outcome) ==
    /\ last_outcome' = outcome
    /\ attempts' = IF outcome \in {"not_invoked", "raised"} THEN attempts
                   ELSE Append(attempts,
                               solver_invocation(capsule_count, timeout, fallback, outcome))
    /\ opt_results_file' = IF outcome = "success" THEN capsule_count
                           ELSE opt_results_file
    /\ attempt_data' = IF vrm_reloadable /\ enhanced_attr
                       THEN [capsule_count |-> capsule_count,
                             data |-> temp_constraints(capsule_count)]
                       ELSE attempt_data
    /\ temp_left' = IF vrm_reloadable /\ enhanced_attr /\ ~opt_model_exists
                    THEN temp_left \cup {capsule_count} ELSE temp_left
    /\ UNCHANGED <<opt_constraints_file, opt_enhanced_file>>

BonesPool == {2, 40}

OptInit ==
    /\ opt_max_capsules \in MaxCapsulesPool
    /\ opt_timeout \in TimeoutPool
    /\ has_constraints \in BOOLEAN
    /\ vrm_reloadable \in BOOLEAN
    /\ opt_model_exists \in BOOLEAN
    /\ opt_results_file \in {0, -1}
    /\ opt_idx = 1 /\ best_capsule_count = 0 /\ attempts = <<>>
    /\ last_outcome = "none" /\ opt_pc = "start" /\ opt_return = "none"
    /\ significant_bones \in BonesPool
    /\ opt_constraints_file =
          IF has_constraints
          THEN DataFile(Min2(opt_max_capsules, significant_bones), FALSE)
          ELSE NoData
    /\ enhanced_attr \in {FALSE, has_constraints}
    /\ opt_enhanced_file \in
          IF enhanced_attr
          THEN {DataFile(Min2(opt_max_capsules, significant_bones), TRUE), NoData}
          ELSE {NoData}
    /\ attempt_data = NoAttemptData /\ temp_left = {}
    /\ CovIdle /\ FitIdle /\ SkinIdle /\ PipeIdle /\ EnhIdle /\ GltfIdle /\ ParseIdle /\ MeshIdle

\* Entry (lines 350-352): without constraint data the call returns False
OptStart ==
    /\ opt_pc = "start"
    /\ opt_pc' = IF has_constraints THEN "attempt" ELSE "done"
    /\ opt_return' = IF has_constraints THEN "none" ELSE "false"
    /\ UNCHANGED <<opt_max_capsules, opt_timeout, has_constraints, vrm_reloadable,
                   opt_model_exists, opt_idx, best_capsule_count, attempts,
                   last_outcome, opt_results_file, significant_bones,
                   opt_constraints_file, enhanced_attr, opt_enhanced_file,
                   attempt_data, temp_left>>
    /\ OptFrame

\* One pass of the loop over capsule_counts, up to the fallback (lines 386-407);
\* an exception raised by the attempt leaves run_optimization
ScheduledAttempt ==
    /\ opt_pc = "attempt"
    /\ opt_idx <= Len(capsule_counts(opt_max_capsules))
    /\ LET capsule_count == capsule_counts(opt_max_capsules)[opt_idx]
           current_timeout == get_timeout(capsule_count, opt_timeout)
       IN  \E outcome \in AttemptOutcomes :
              /\ SingleOptimization(capsule_count, current_timeout, FALSE, outcome)
              /\ opt_return' = IF outcome = "raised" THEN "raised" ELSE opt_return
              /\ IF outcome = "raised"
                 THEN /\ best_capsule_count' = best_capsule_count
                      /\ opt_idx' = opt_idx
                      /\ opt_pc' = "done"
                 ELSE IF outcome = "success"
                 THEN /\ best_capsule_count' = capsule_count
                      /\ opt_idx' = opt_idx + 1
                      /\ opt_pc' = "attempt"
                 ELSE /\ best_capsule_count' = best_capsule_count
                      /\ IF best_capsule_count # 0
                         THEN opt_idx' = opt_idx /\ opt_pc' = "finish"
                         ELSE IF capsule_count > 1
                              THEN opt_idx' = opt_idx /\ opt_pc' = "fallback"
                              ELSE opt_idx' = opt_idx + 1 /\ opt_pc' = "attempt"
    /\ UNCHANGED <<opt_max_capsules, opt_timeout, has_constraints, vrm_reloadable,
                   opt_model_exists, significant_bones, enhanced_attr>>
    /\ OptFrame

\* The one-capsule fallback after a failure with no result yet (lines 409-415)
FallbackAttempt ==
    /\ opt_pc = "fallback"
    /\ \E outcome \in AttemptOutcomes :
          /\ SingleOptimization(FALLBACK_CAPSULES, FALLBACK_TIMEOUT, TRUE, outcome)
          /\ opt_return' = IF outcome = "raised" THEN "raised" ELSE opt_return
          /\ IF outcome = "raised"
             THEN /\ best_capsule_count' = best_capsule_count
                  /\ opt_idx' = opt_idx
                  /\ opt_pc' = "done"
             ELSE IF outcome = "success"
             THEN /\ best_capsule_count' = FALLBACK_CAPSULES
                  /\ opt_idx' = opt_idx
                  /\ opt_pc' = "finish"
             ELSE /\ best_capsule_count' = best_capsule_count
                  /\ opt_idx' = opt_idx + 1
                  /\ opt_pc' = "attempt"
    /\ UNCHANGED <<opt_max_capsules, opt_timeout, has_constraints, vrm_reloadable,
                   opt_model_exists, significant_bones, enhanced_attr>>
    /\ OptFrame

\* After the loop (lines 417-426)
OptReturn ==
    /\ \/ opt_pc = "finish"
       \/ opt_pc = "attempt" /\ opt_idx > Len(capsule_counts(opt_max_capsules))
    /\ opt_pc' = "done"
    /\ opt_return' = IF best_capsule_count # 0 THEN "true" ELSE "false"
    /\ UNCHANGED <<opt_max_capsules, opt_timeout, has_constraints, vrm_reloadable,
                   opt_model_exists, opt_idx, best_capsule_count, attempts,
                   last_outcome, opt_results_file, significant_bones,
                   opt_constraints_file, enhanced_attr, opt_enhanced_file,
                   attempt_data, temp_left>>
    /\ OptFrame

OptNext == OptStart \/ ScheduledAttempt \/ FallbackAttempt \/ OptReturn

SpecOptimize == OptInit /\ [][OptNext]_vars

-----------------------------------------------------------------------------
(* Claims about the solver timeout.                                        *)

\* C10: in every attempt, the attempts of the progressive retry included, the
\* solver process is not allowed to run longer than the timeout the caller of
\* run_optimization supplied.
C10_SolverBoundedByCallerTimeout ==
    \A k \in 1..Len(attempts) : attempts[k].process_limit <= opt_timeout

-----------------------------------------------------------------------------
(* Claims about the files of the progressive retry.                        *)

\* The step is a solver attempt that ended in TimeoutExpired
TimedOutStep == attempts' # attempts /\ last_outcome' = "timeout"

\* C11: a solver attempt that times out reports failure and leaves the
\* constraint data file, the enhanced constraint file and the results file of
\* an earlier successful attempt as they were.
C11_TimeoutLeavesOutputs ==
    [][TimedOutStep =>
          /\ ~attempts'[Len(attempts')].success
          /\ best_capsule_count' = best_capsule_count
          /\ UNCHANGED <<opt_constraints_file, opt_enhanced_file, opt_results_file>>]_vars

\* A timeout after an earlier attempt has written the results file
C11_Witness ==
    /\ last_outcome = "timeout"
    /\ opt_results_file > 0 /\ best_capsule_count > 0
    /\ opt_constraints_file.exists /\ opt_enhanced_file.exists

\* C12: the data file regenerated for an attempt with k candidates says
\* n_capsules = k and has exactly k rows in every per-candidate array and, when
\* the coverage section is present, in the coverage matrix.
C12_AttemptDataConsistent ==
    attempt_data.data.exists =>
        /\ attempt_data.data.n_capsules = attempt_data.capsule_count
        /\ attempt_data.data.rows = attempt_data.capsule_count
        /\ attempt_data.data.coverage =>
              attempt_data.data.coverage_rows = attempt_data.capsule_count

-----------------------------------------------------------------------------
(* The enhanced constraint data of the VRM pipeline.                        *)
(*                                                                          *)
(* A data file is the sequence of lines text.split('\n') gives; a line is   *)
(* its leading text and the sizes written into it.  An unreadable or absent *)
(* file is the empty sequence (a readable empty file is one blank line).    *)

MaxEnhCalls == 3

Line(text, a, b) == [text |-> text, a |-> a, b |-> b]

BlankLine == Line("", 0, 0)

WITNESS_MARKER == "% Witness point coverage data"

\* capsule_generator.generate_capsule_constraints, float mode: the lines it
\* joins with '\n'; the global bounds are written only when the bones carry
\* vertices, otherwise the text ends with the blank line after the
\* hierarchy comment.
generate_capsule_constraints(n, with_vertices) ==
    << Line("% Generated from VRM mesh analysis", 0, 0),
       Line("n_capsules", n, 0),
       BlankLine,
       Line("bone_centers", n, 3),
       Line("bone_sizes", n, 3),
       Line("bone_rotations", n, 9),
       Line("bone_directions", n, 3),
       Line("bone_names", n, 0),
       BlankLine,
       Line("% No bone hierarchy - capsules use weight painting only", 0, 0),
       BlankLine >>
    \o (IF with_vertices
        THEN << Line("% Global mesh bounds", 0, 0),
                Line("min_pos", 3, 0),
                Line("max_pos", 3, 0),
                Line("max_radius", 0, 0),
                Line("max_length", 0, 0) >>
        ELSE <<>>)

\* The index of the first line that contains the section comment, 0 when
\* there is none (the code's -1)
witness_section_start(lines) ==
    IF \E i \in 1..Len(lines) : lines[i].text = WITNESS_MARKER
    THEN CHOOSE i \in 1..Len(lines) :
            /\ lines[i].text = WITNESS_MARKER
            /\ \A j \in 1..(i - 1) : lines[j].text # WITNESS_MARKER
    ELSE 0

\* For comparison: the data kept whole, an existing section included
outside_section_kept(lines) == lines

\* lines[:witness_section_start] when a section was found, else every line
outside_section(lines) ==
    IF witness_section_start(lines) > 0
    THEN SubSeq(lines, 1, witness_section_start(lines) - 1)
    ELSE lines

\* str.rstrip on the joined text: the trailing blank lines go (no line of
\* these files ends in white space); <<>> is the empty text
RECURSIVE rstrip(_)
rstrip(lines) ==
    IF lines = <<>> THEN <<>>
    ELSE IF lines[Len(lines)].text = ""
         THEN rstrip(SubSeq(lines, 1, Len(lines) - 1))
         ELSE lines

\* The four lines appended after the data
coverage_section(witness, matrix) ==
    << Line(WITNESS_MARKER, 0, 0),
       Line("num_points", witness.rows, 0),
       Line("witness_points", witness.rows, 3),
       Line("coverage_matrix", matrix.rows, matrix.cols) >>

\* enhanced_data as written: original_data.rstrip() + "\n\n" + the section,
\* whose last line ends with "\n"
enhanced_data(lines, witness, matrix) ==
    (IF rstrip(outside_section(lines)) = <<>>
     THEN <<BlankLine>>
     ELSE rstrip(outside_section(lines)))
    \o <<BlankLine>> \o coverage_section(witness, matrix) \o <<BlankLine>>

NoneInput == [none |-> TRUE, rows |-> 0, cols |-> 0]

Array(rows, cols) == [none |-> FALSE, rows |-> rows, cols |-> cols]

WitnessInputs == {NoneInput} \cup {Array(p, 3) : p \in 1..2}

MatrixInputs == {NoneInput} \cup {Array(p, c) : p \in 1..2, c \in 1..2}

\* The data files analyze_vrm_mesh leaves, and the same files already
\* ending with a coverage section
GeneratedFiles ==
    {generate_capsule_constraints(n, v) : n \in 1..2, v \in BOOLEAN}

EnhConstraintFiles ==
    {<<>>} \cup GeneratedFiles
    \cup {enhanced_data(file, Array(1, 3), Array(1, 1)) : file \in GeneratedFiles}

EnhInit ==
    /\ enh_constraints_file \in EnhConstraintFiles
    /\ enh_enhanced_file = <<>>
    /\ enh_attr = FALSE
    /\ enh_return = "none"
    /\ enh_calls = 0
    /\ CovIdle /\ FitIdle /\ SkinIdle /\ PipeIdle /\ OptIdle /\ GltfIdle /\ ParseIdle /\ MeshIdle

\* create_enhanced_constraint_data(witness_points, coverage_matrix)
CreateEnhancedConstraintData(witness, matrix) ==
    /\ enh_calls < MaxEnhCalls
    /\ enh_calls' = enh_calls + 1
    /\ IF witness.none \/ matrix.none \/ enh_constraints_file = <<>>
       THEN /\ enh_return' = "false"
            /\ UNCHANGED <<enh_enhanced_file, enh_attr>>
       ELSE /\ enh_enhanced_file' =
                   enhanced_data(enh_constraints_file, witness, matrix)
            /\ enh_attr' = TRUE
            /\ enh_return' = "true"
    /\ UNCHANGED enh_constraints_file
    /\ EnhFrame

EnhNext ==
    \E witness \in WitnessInputs, matrix \in MatrixInputs :
        CreateEnhancedConstraintData(witness, matrix)

SpecEnhanced == EnhInit /\ [][EnhNext]_vars

-----------------------------------------------------------------------------
(* Claims about the enhanced constraint data.                               *)

SectionCount(lines) ==
    Cardinality({i \in 1..Len(lines) : lines[i].text = WITNESS_MARKER})

\* The lines that precede the first section comment
LinesBeforeSection(lines) ==
    IF SectionCount(lines) = 0 THEN lines
    ELSE SubSeq(lines, 1,
                (CHOOSE i \in 1..Len(lines) :
                    /\ lines[i].text = WITNESS_MARKER
                    /\ \A j \in 1..(i - 1) : lines[j].text # WITNESS_MARKER) - 1)

\* The data lines are the same, in the same order, up to the one blank
\* line that separates them from the section
SameData(before, after) ==
    after = before \/ after = before \o <<BlankLine>>

\* The last three lines of the one section are those of these inputs
EndsWithSection(lines, witness, matrix) ==
    /\ Len(lines) >= 5
    /\ SubSeq(lines, Len(lines) - 4, Len(lines) - 1)
          = coverage_section(witness, matrix)

EnhancedWritten ==
    enh_calls' = enh_calls + 1 /\ enh_return' = "true"

\* C13: a successful create_enhanced_constraint_data leaves the data file
\* itself alone and writes a file in which every line outside the coverage
\* section is a line of the data file, unchanged and in order, followed by
\* exactly one coverage section; applying it again to its own output, with
\* any inputs, still gives the same data lines and exactly one section.
C13_OnlyCoverageSectionReplaced ==
    [][EnhancedWritten =>
          /\ enh_constraints_file' = enh_constraints_file
          /\ SectionCount(enh_enhanced_file') = 1
          /\ SameData(LinesBeforeSection(enh_constraints_file),
                      LinesBeforeSection(enh_enhanced_file'))
          /\ \A witness \in WitnessInputs \ {NoneInput},
                matrix \in MatrixInputs \ {NoneInput} :
                LET again == enhanced_data(enh_enhanced_file', witness, matrix)
                IN /\ SectionCount(again) = 1
                   /\ LinesBeforeSection(again)
                         = LinesBeforeSection(enh_enhanced_file')
                   /\ EndsWithSection(again, witness, matrix)]_vars

\* The data file already ended with a section and the function has written
\* its output twice
C13_Witness ==
    /\ enh_calls >= 2
    /\ enh_return = "true"
    /\ SectionCount(enh_constraints_file) = 1
    /\ SectionCount(enh_enhanced_file) = 1

-----------------------------------------------------------------------------
(* Claims about the staging of the pipeline.                                *)

\* The steps of CoACDCapsulePipeline.run_complete_pipeline in call order
STAGE_ORDER ==
    <<"load", "decompose", "fit", "sample", "coverage", "data", "solve",
      "process">>

IsPrefix(s, t) == Len(s) <= Len(t) /\ s = SubSeq(t, 1, Len(s))

\* Step 7 delivered the results file whole: the solver ended with return
\* code 0 and wrote it, or the pipeline wrote the all-capsules file itself
ResultsDelivered ==
    \/ results_file.origin = "pipeline"
    \/ results_file.origin = "solver" /\ solver_event = "ok"

\* C14: the steps of a run are entered one after another in the one fixed
\* order, each after the step before it has returned, and a step reads only
\* what the step before it delivered whole: when step 8 turns the results
\* file into the glTF output, that file is the complete output of step 7 of
\* this run.
C14_StagesSequentialOnWholeOutputs ==
    /\ IsPrefix(pipe_stages, STAGE_ORDER)
    /\ (pipe_pc = "done" /\ pipe_result = "ok") => ResultsDelivered

-----------------------------------------------------------------------------
(* GLTFCapsuleGenerator: the scene under construction.                      *)
(*                                                                          *)
(* Indices into nodes, meshes, accessors, bufferViews and buffers count     *)
(* from 0 as in the file; element k of a list is the sequence's k + 1.      *)
(* buffer_data is len(self.buffer_data) in bytes.  A capsule mesh is known  *)
(* by its vertex and index counts.                                          *)

MaxGltfCapsules == 2

MaxGltfOps == 3

FLOAT == 5126

UNSIGNED_SHORT == 5123

UNSIGNED_INT == 5125

ALIGNMENT == 4

\* struct.pack 'f', 'H', 'I': bytes per component
component_bytes(component_type) ==
    IF component_type = UNSIGNED_SHORT THEN 2 ELSE 4

\* while len(self.buffer_data) % 4 != 0: append(0)
padded_length(length) ==
    length + ((ALIGNMENT - (length % ALIGNMENT)) % ALIGNMENT)

\* add_buffer_data: pad, append the packed data, append a bufferView; the
\* returned index is Len(g.bufferViews)
add_buffer_data(g, count, component_type) ==
    LET byte_offset == padded_length(g.buffer_data)
        byte_length == count * component_bytes(component_type)
    IN  [g EXCEPT !.buffer_data = byte_offset + byte_length,
                  !.bufferViews = Append(@, [buffer     |-> 0,
                                             byteOffset |-> byte_offset,
                                             byteLength |-> byte_length])]

\* create_accessor: the returned index is Len(g.accessors); type_str is
\* held as its number of components (SCALAR 1, VEC3 3, VEC4 4)
create_accessor(g, buffer_view, count, type_str, component_type) ==
    [g EXCEPT !.accessors = Append(@, [bufferView    |-> buffer_view,
                                       componentType |-> component_type,
                                       count         |-> count,
                                       type          |-> type_str])]

\* One attribute of a capsule: its data, then its accessor
add_attribute(g, count, components, component_type) ==
    create_accessor(add_buffer_data(g, count * components, component_type),
                    Len(g.bufferViews), count, components, component_type)

\* The attributes dictionary with COLOR_0 set along with the skinning
\* attributes, whether or not there are colors
mesh_attributes_colors_with_skinning(first_accessor, skinning, colors) ==
    LET names == {"POSITION", "NORMAL"}
                 \cup (IF skinning THEN {"JOINTS_0", "WEIGHTS_0", "COLOR_0"} ELSE {})
    IN  [name \in names |->
            CASE name = "POSITION"  -> first_accessor
              [] name = "NORMAL"    -> first_accessor + 1
              [] name = "JOINTS_0"  -> first_accessor + 3
              [] name = "WEIGHTS_0" -> first_accessor + 4
              [] name = "COLOR_0"   -> first_accessor + 5]

\* The attributes dictionary of a mesh (lines 332-368): each name with its
\* accessor, the accessors of one capsule being made in the order POSITION,
\* NORMAL, indices, JOINTS_0, WEIGHTS_0, COLOR_0
mesh_attributes(first_accessor, skinning, colors) ==
    LET names == {"POSITION", "NORMAL"}
                 \cup (IF skinning THEN {"JOINTS_0", "WEIGHTS_0"} ELSE {})
                 \cup (IF colors THEN {"COLOR_0"} ELSE {})
    IN  [name \in names |->
            CASE name = "POSITION"  -> first_accessor
              [] name = "NORMAL"    -> first_accessor + 1
              [] name = "JOINTS_0"  -> first_accessor + 3
              [] name = "WEIGHTS_0" -> first_accessor + 4
              [] name = "COLOR_0"   -> first_accessor + (IF skinning THEN 5 ELSE 3)]

\* add_capsule_to_scene: positions, normals, indices, then joints and
\* weights when skinning data is given, then colors when given, one mesh and
\* one node.  `skinning` is: skinning_data holds "joints" and "weights";
\* `colors` is: vertex_colors is not None.  A mesh remembers both (they are
\* not part of the file).
add_capsule_to_scene(g, capsule_data, capsule_id, skinning, colors) ==
    LET v  == capsule_data.vertex_count
        g1 == add_attribute(g, v, 3, FLOAT)
        g2 == add_attribute(g1, v, 3, FLOAT)
        g3 == add_attribute(g2, capsule_data.index_count, 1, UNSIGNED_INT)
        g4 == IF skinning
              THEN add_attribute(add_attribute(g3, v, 4, UNSIGNED_SHORT),
                                 v, 4, FLOAT)
              ELSE g3
        g5 == IF colors THEN add_attribute(g4, v, 3, FLOAT) ELSE g4
    IN  [g5 EXCEPT
            !.meshes = Append(@, [capsule_id    |-> capsule_id,
                                  attributes    |-> mesh_attributes(Len(g.accessors),
                                                                    skinning, colors),
                                  POSITION      |-> Len(g.accessors),
                                  indices       |-> Len(g.accessors) + 2,
                                  skinning_data |-> skinning,
                                  vertex_colors |-> colors]),
            !.nodes  = Append(@, [name     |-> "Capsule",
                                  mesh     |-> Len(g.meshes),
                                  children |-> <<>>])]

\* for i, capsule in enumerate(capsules): add_capsule_to_scene(..., i + 1, ...)
\* for the capsules from position `from` on
RECURSIVE add_capsules(_, _, _, _, _, _)
add_capsules(g, capsule_data, from, n, skinning, colors) ==
    IF from > n THEN g
    ELSE add_capsules(add_capsule_to_scene(g, capsule_data, from, skinning, colors),
                      capsule_data, from + 1, n, skinning, colors)

\* For comparison: a self-check that looks at the node references only
validate_gltf_structure_nodes_only(g) ==
    \A i \in 1..Len(g.nodes) :
       \A c \in 1..Len(g.nodes[i].children) :
          ~(g.nodes[i].children[c] >= Len(g.nodes))

\* validate_gltf_structure: TRUE when the error list stays empty
validate_gltf_structure(g) ==
    /\ \A a \in 1..Len(g.accessors) :
          LET buffer_view_idx == g.accessors[a].bufferView
          IN  /\ ~(buffer_view_idx >= Len(g.bufferViews))
              /\ LET buffer_view == g.bufferViews[buffer_view_idx + 1]
                 IN  /\ ~(buffer_view.buffer >= Len(g.buffers))
                     /\ ~(buffer_view.byteOffset + buffer_view.byteLength
                            > g.buffers[buffer_view.buffer + 1].byteLength)
    /\ \A k \in 1..Len(g.skins) :
          /\ g.skins[k].inverseBindMatrices < Len(g.accessors)
          /\ g.accessors[g.skins[k].inverseBindMatrices + 1].count
                = Len(g.skins[k].joints)
    /\ \A i \in 1..Len(g.nodes) :
          \A c \in 1..Len(g.nodes[i].children) :
             ~(g.nodes[i].children[c] >= Len(g.nodes))

\* base64.b64encode of `length` bytes: four characters for every three
\* bytes begun, the last group filled up with '=' characters
b64encode(length) ==
    [chars   |-> 4 * ((length + 2) \div 3),
     padding |-> (3 - (length % 3)) % 3]

\* len(base64.b64decode(encoded_data)) (validate_gltf.py:89-91): three bytes
\* for every four characters, less the filling
b64decode_length(uri) == 3 * (uri.chars \div 4) - uri.padding

\* For comparison: a buffer that declares its length rounded up to the
\* alignment
embedded_buffer_padded(length) ==
    [byteLength |-> padded_length(length), uri |-> b64encode(length)]

\* The buffer generate_gltf appends (lines 1034-1040): the declared length
\* and the data URI of the bytes
embedded_buffer(length) ==
    [byteLength |-> length, uri |-> b64encode(length)]

\* generate_gltf up to the self-check: the root node when there is no node
\* yet, one capsule per entry, the children of node 0, one more buffer when
\* there is buffer data
generate_gltf(g, capsule_data, n) ==
    LET g0 == IF g.nodes = <<>>
              THEN [g EXCEPT !.nodes = <<[name     |-> "CapsuleRoot",
                                          mesh     |-> -1,
                                          children |-> <<>>]>>]
              ELSE g
        g1 == add_capsules(g0, capsule_data, 1, n, FALSE, FALSE)
        capsule_node_indices == [i \in 1..n |-> Len(g0.nodes) + i - 1]
        g2 == [g1 EXCEPT !.nodes[1].children = capsule_node_indices]
    IN  IF g2.buffer_data > 0
        THEN [g2 EXCEPT !.buffers = Append(@, embedded_buffer(g2.buffer_data))]
        ELSE g2

\* The route by which the scene has been built so far
route_after(call) ==
    IF gltf_route = "fresh" THEN call ELSE "mixed"

\* The capsule mesh handed to add_capsule_to_scene
CapsuleData == {[vertex_count |-> 2, index_count |-> 3]}

BufferCounts == {1, 3}

GltfInit ==
    /\ gltf_data = EmptyScene
    /\ gltf_route = "fresh"
    /\ gltf_selected = 0
    /\ gltf_calls = 0
    /\ gltf_ops = 0
    /\ gltf_validation = "none"
    /\ CovIdle /\ FitIdle /\ SkinIdle /\ PipeIdle /\ OptIdle /\ EnhIdle /\ ParseIdle /\ MeshIdle

\* A direct call of add_buffer_data
AddBufferData(count, component_type) ==
    /\ gltf_ops < MaxGltfOps
    /\ gltf_data' = add_buffer_data(gltf_data, count, component_type)
    /\ gltf_route' = "mixed"
    /\ gltf_ops' = gltf_ops + 1
    /\ UNCHANGED <<gltf_selected, gltf_calls, gltf_validation>>
    /\ GltfFrame

\* A direct call of add_capsule_to_scene
AddCapsuleToScene(capsule_data, skinning, colors) ==
    /\ gltf_ops < MaxGltfOps
    /\ gltf_data' = add_capsule_to_scene(gltf_data, capsule_data,
                                         Len(gltf_data.meshes) + 1,
                                         skinning, colors)
    /\ gltf_route' = "mixed"
    /\ gltf_ops' = gltf_ops + 1
    /\ UNCHANGED <<gltf_selected, gltf_calls, gltf_validation>>
    /\ GltfFrame

\* What every route ends with: generate_gltf(capsules) on the scene `g`
\* and its self-check (lines 1045-1047)
Generated(g, capsule_data, n, call) ==
    /\ gltf_data' = generate_gltf(g, capsule_data, n)
    /\ gltf_validation' =
          IF validate_gltf_structure(generate_gltf(g, capsule_data, n))
          THEN "passed" ELSE "warning"
    /\ gltf_selected' = n
    /\ gltf_calls' = gltf_calls + 1
    /\ gltf_ops' = gltf_ops + 1
    /\ gltf_route' = route_after(call)

\* generate_gltf(capsules) called by minizinc_to_gltf.main, process_results
\* and generate_gltf_model
GenerateGltf(capsule_data, n) ==
    /\ gltf_ops < MaxGltfOps
    /\ Generated(gltf_data, capsule_data, n, "generate_gltf")
    /\ GltfFrame

\* SkinnedCapsulePipeline._generate_basic_capsules
GenerateBasicCapsules(capsule_data, n) ==
    /\ gltf_ops < MaxGltfOps
    /\ Generated(add_capsules(gltf_data, capsule_data, 1, n, FALSE, FALSE),
                 capsule_data, n, "basic")
    /\ GltfFrame

\* SkinnedCapsulePipeline._generate_skinned_capsules_with_weights; the
\* skinning of the capsules succeeds or falls back, and colors are made or not
GenerateSkinnedCapsulesWithWeights(capsule_data, n, skinning, colors) ==
    /\ gltf_ops < MaxGltfOps
    /\ skinning \/ ~colors
    /\ Generated(add_capsules(gltf_data, capsule_data, 1, n, skinning, colors),
                 capsule_data, n, "skinned")
    /\ GltfFrame

GltfNext ==
    \/ \E count \in BufferCounts, component_type \in {FLOAT, UNSIGNED_SHORT} :
          AddBufferData(count, component_type)
    \/ \E capsule_data \in CapsuleData, skinning \in BOOLEAN, colors \in BOOLEAN :
          AddCapsuleToScene(capsule_data, skinning, colors)
    \/ \E capsule_data \in CapsuleData, n \in 0..MaxGltfCapsules :
          GenerateGltf(capsule_data, n)
    \/ \E capsule_data \in CapsuleData, n \in 1..MaxGltfCapsules :
          GenerateBasicCapsules(capsule_data, n)
    \/ \E capsule_data \in CapsuleData, n \in 1..MaxGltfCapsules,
          skinning \in BOOLEAN, colors \in BOOLEAN :
          GenerateSkinnedCapsulesWithWeights(capsule_data, n, skinning, colors)

SpecGltf == GltfInit /\ [][GltfNext]_vars

-----------------------------------------------------------------------------
(* Claims about the output scene.                                           *)

\* C15: a scene built by generate_gltf alone, by _generate_basic_capsules or
\* by _generate_skinned_capsules_with_weights on a new generator holds one
\* mesh per selected capsule.
C15_OneMeshPerCapsule ==
    gltf_route \in {"generate_gltf", "basic", "skinned"} =>
        Len(gltf_data.meshes) = gltf_selected

\* C16: when generate_gltf returns on a scene that has data, whatever was
\* added before and however often it has been called, the scene has exactly
\* one buffer, which holds all the data, and every bufferView starts at a
\* multiple of four bytes.
C16_OneAlignedBuffer ==
    [][(gltf_calls' = gltf_calls + 1 /\ gltf_data'.buffer_data > 0) =>
          /\ Len(gltf_data'.buffers) = 1
          /\ gltf_data'.buffers[1].byteLength = gltf_data'.buffer_data
          /\ \A b \in 1..Len(gltf_data'.bufferViews) :
                gltf_data'.bufferViews[b].byteOffset % 4 = 0]_vars

\* What the self-check is there to establish: every accessor lies, through
\* its bufferView, inside an existing buffer, every child of a node is a
\* node, and every skin has as many inverse bind matrices as joints
StructurallySound(g) ==
    /\ \A a \in 1..Len(g.accessors) :
          /\ g.accessors[a].bufferView \in 0..(Len(g.bufferViews) - 1)
          /\ LET view == g.bufferViews[g.accessors[a].bufferView + 1]
             IN  /\ view.buffer \in 0..(Len(g.buffers) - 1)
                 /\ view.byteOffset + view.byteLength
                       <= g.buffers[view.buffer + 1].byteLength
    /\ \A i \in 1..Len(g.nodes) :
          \A c \in 1..Len(g.nodes[i].children) :
             g.nodes[i].children[c] \in 0..(Len(g.nodes) - 1)
    /\ \A k \in 1..Len(g.skins) :
          /\ g.skins[k].inverseBindMatrices \in 0..(Len(g.accessors) - 1)
          /\ g.accessors[g.skins[k].inverseBindMatrices + 1].count
                = Len(g.skins[k].joints)

\* C17: every generate_gltf call ends with the self-check of the scene it
\* returns, and the check ends in the warning exactly when that scene has an
\* accessor outside its buffer, a child index that is no node, or a skin
\* whose inverse bind matrices and joints differ in number.
C17_SelfCheckCatchesViolations ==
    [][gltf_calls' = gltf_calls + 1 =>
          /\ gltf_validation' \in {"passed", "warning"}
          /\ gltf_validation' = "warning" <=> ~StructurallySound(gltf_data')]_vars

\* A second generate_gltf call has left bufferViews beyond the first buffer
\* and the self-check has warned
C17_Witness ==
    /\ gltf_calls >= 2
    /\ gltf_validation = "warning"
    /\ ~StructurallySound(gltf_data)

-----------------------------------------------------------------------------
(* GLTFCapsuleGenerator.parse_minizinc_output and what it calls.            *)
(*                                                                          *)
(* A line of the solver output is known by which of the two patterns it     *)
(* matches and by the numbers written in it.  Encoded numbers are integers; *)
(* decoded ones are exact fractions.  Rotation matrices and directions are  *)
(* row-major tuples in thousandths, as the solver writes them (x 1000).     *)
(* Directions are taken along the coordinate axes, where the square roots   *)
(* and the angle of calculate_swing_rotation are exact.                     *)

MaxOutputLines == 2

AUTO_SCALE == 1000

ROTATION_SCALE == 1000

Abs(x) == IF x < 0 THEN -x ELSE x

\* The fraction n / d in lowest terms, d > 0
Rat(n, d) ==
    LET g == GCD(Abs(n), d)
    IN  [num |-> n \div g, den |-> d \div g]

IDENTITY == <<1000, 0, 0, 0, 1000, 0, 0, 0, 1000>>

NoRotation == [none |-> TRUE, m |-> <<>>]

Rotation(m) == [none |-> FALSE, m |-> m]

NoDirection == [none |-> TRUE, v |-> <<>>]

Direction(v) == [none |-> FALSE, v |-> v]

\* bone_data = {} : no companion file, or parse_dzn_file gave up
NoBoneData == [has_rotation |-> FALSE, rotation |-> <<>>,
               has_direction |-> FALSE, direction |-> <<>>]

\* parse_dzn_file: the values are read with int(); a file written with
\* float values raises in int() and the whole result is {}
parse_dzn_file(file) ==
    IF file.kind = "integer"
    THEN [has_rotation  |-> file.has_rotation,  rotation  |-> file.rotation,
          has_direction |-> file.has_direction, direction |-> file.direction]
    ELSE NoBoneData

\* The is_identity test of lines 699-703: every entry within 0.001 of the
\* identity's, which on thousandths is equality
is_identity(m) == m = IDENTITY

\* any(abs(x) > 0.001 for x in bone_direction)
nonzero_direction(v) == \E k \in 1..3 : Abs(v[k]) > 1

\* math.sqrt(sum(x*x)) of a vector along one axis
axis_length(v) == Abs(v[1]) + Abs(v[2]) + Abs(v[3])

cross(a, b) ==
    << a[2] * b[3] - a[3] * b[2],
       a[3] * b[1] - a[1] * b[3],
       a[1] * b[2] - a[2] * b[1] >>

\* axis_angle_to_matrix for a unit axis and an angle given by its cosine
\* and sine, the entries in thousandths
axis_angle_to_matrix(axis, cos_angle, sin_angle) ==
    LET x == axis[1]
        y == axis[2]
        z == axis[3]
        one_minus_cos == 1 - cos_angle
    IN  << ROTATION_SCALE * (cos_angle + x * x * one_minus_cos),
           ROTATION_SCALE * (x * y * one_minus_cos - z * sin_angle),
           ROTATION_SCALE * (x * z * one_minus_cos + y * sin_angle),
           ROTATION_SCALE * (y * x * one_minus_cos + z * sin_angle),
           ROTATION_SCALE * (cos_angle + y * y * one_minus_cos),
           ROTATION_SCALE * (y * z * one_minus_cos - x * sin_angle),
           ROTATION_SCALE * (z * x * one_minus_cos - y * sin_angle),
           ROTATION_SCALE * (z * y * one_minus_cos + x * sin_angle),
           ROTATION_SCALE * (cos_angle + z * z * one_minus_cos) >>

\* calculate_swing_rotation(from_vector, to_vector)
calculate_swing_rotation(from_vector, to_vector) ==
    IF axis_length(from_vector) = 0 \/ axis_length(to_vector) = 0
    THEN IDENTITY
    ELSE LET from_vec == [k \in 1..3 |-> from_vector[k] \div axis_length(from_vector)]
             to_vec   == [k \in 1..3 |-> to_vector[k] \div axis_length(to_vector)]
             dot_product == from_vec[1] * to_vec[1] + from_vec[2] * to_vec[2]
                            + from_vec[3] * to_vec[3]
         IN  IF dot_product = 1 THEN IDENTITY
             ELSE IF dot_product = -1
             THEN LET perp == IF from_vec[1] = 0 THEN <<1, 0, 0>> ELSE <<0, 1, 0>>
                  IN  axis_angle_to_matrix(cross(from_vec, perp), -1, 0)
             ELSE axis_angle_to_matrix(cross(from_vec, to_vec), 0, 1)

\* multiply_matrices on thousandths
multiply_matrices(a, b) ==
    [e \in 1..9 |->
        LET i == (e - 1) \div 3
            j == (e - 1) % 3
        IN  (a[3 * i + 1] * b[j + 1] + a[3 * i + 2] * b[j + 4]
               + a[3 * i + 3] * b[j + 7]) \div ROTATION_SCALE]

DEFAULT_CAPSULE_DIRECTION == <<0, 1000, 0>>

\* For comparison: the numbers of the line kept as they are written
scale_back_kept(value, scale_factor) == Rat(value, 1)

\* if scale_factor > 1.0: value /= scale_factor
scale_back(value, scale_factor) ==
    IF scale_factor > 1 THEN Rat(value, scale_factor) ELSE Rat(value, 1)

\* The scale factor of lines 665-673
scale_factor_of(manual, note) ==
    IF manual.given THEN manual.value
    ELSE IF note THEN AUTO_SCALE ELSE 1

\* The rotation and direction of a line of the new format (lines 688-721)
new_format_rotation(line) ==
    LET explicit == IF Len(line.rot_swing) = 9 /\ ~is_identity(line.rot_swing)
                    THEN Rotation(line.rot_swing) ELSE NoRotation
    IN  IF Len(line.dir) = 3
        THEN [rotation_matrix |->
                 IF nonzero_direction(line.dir) /\ explicit.none
                 THEN Rotation(calculate_swing_rotation(
                                   DEFAULT_CAPSULE_DIRECTION, line.dir))
                 ELSE explicit,
              bone_direction |-> Direction(line.dir)]
        ELSE [rotation_matrix |-> explicit, bone_direction |-> NoDirection]

\* The rotation and direction of a line of the old format, from the
\* companion data (lines 760-779)
old_format_rotation(bone_data) ==
    LET from_file == IF bone_data.has_rotation
                     THEN Rotation(bone_data.rotation) ELSE NoRotation
    IN  IF bone_data.has_direction
        THEN [rotation_matrix |->
                 IF nonzero_direction(bone_data.direction)
                 THEN LET swing_rotation ==
                              calculate_swing_rotation(DEFAULT_CAPSULE_DIRECTION,
                                                       bone_data.direction)
                      IN  IF from_file.none THEN Rotation(swing_rotation)
                          ELSE Rotation(multiply_matrices(swing_rotation,
                                                          from_file.m))
                 ELSE from_file,
              bone_direction |-> Direction(bone_data.direction)]
        ELSE [rotation_matrix |-> from_file, bone_direction |-> NoDirection]

\* The dictionary appended for one matching line
parsed_capsule(line, scale_factor, bone_data) ==
    LET r == IF line.shape = "new" THEN new_format_rotation(line)
             ELSE old_format_rotation(bone_data)
    IN  [position  |-> [k \in 1..3 |-> scale_back(line.pos[k], scale_factor)],
         length    |-> scale_back(line.length, scale_factor),
         radius1   |-> scale_back(line.r1, scale_factor),
         radius2   |-> scale_back(line.r2, scale_factor),
         bone_name |-> line.bone_name,
         rotation_matrix |-> r.rotation_matrix,
         bone_direction  |-> r.bone_direction]

\* The loop over the lines (675-789).  A line that does not start with
\* 'Capsule' or matches neither pattern is passed over without a message; a
\* matching line whose number text float() rejects raises ValueError out of
\* the function.
RECURSIVE parse_from(_, _, _, _, _)
parse_from(lines, i, scale_factor, bone_data, parsed) ==
    IF i > Len(lines)
    THEN [raised |-> FALSE, capsules |-> parsed, diagnostics |-> 0]
    ELSE IF lines[i].shape \in {"new", "old"}
         THEN IF lines[i].numbers_ok
              THEN parse_from(lines, i + 1, scale_factor, bone_data,
                              Append(parsed,
                                     parsed_capsule(lines[i], scale_factor,
                                                    bone_data)))
              ELSE [raised |-> TRUE, capsules |-> <<>>, diagnostics |-> 0]
         ELSE parse_from(lines, i + 1, scale_factor, bone_data, parsed)

parse_minizinc_output(lines, manual, note, file) ==
    parse_from(lines, 1, scale_factor_of(manual, note),
               IF file.kind = "none" THEN NoBoneData ELSE parse_dzn_file(file),
               <<>>)

\* SkinnedCapsulePipeline.parse_optimization_results: any exception is
\* printed and [] is returned
parse_optimization_results(lines, manual, note, file) ==
    IF parse_minizinc_output(lines, manual, note, file).raised
    THEN [raised |-> FALSE, capsules |-> <<>>, diagnostics |-> 1]
    ELSE parse_minizinc_output(lines, manual, note, file)

ROT_Z_90 == <<0, -1000, 0, 1000, 0, 0, 0, 0, 1000>>

CapsuleLine(shape, numbers_ok, pos, bone_name, rot_swing, dir) ==
    [shape |-> shape, numbers_ok |-> numbers_ok, pos |-> pos,
     length |-> 422000, r1 |-> 164000, r2 |-> 100000,
     bone_name |-> bone_name, rot_swing |-> rot_swing, dir |-> dir]

\* Lines of the new format, of the old format, a 'Capsule' line that matches
\* neither pattern, a matching line with a number float() rejects ("1.2.3"),
\* and a line of other output
NewLine(rot, dir) ==
    CapsuleLine("new", TRUE, <<-84000, 792000, -5000>>, "Hips", rot, dir)

LinePool ==
    { NewLine(IDENTITY, <<0, 0, 0>>),
      NewLine(IDENTITY, <<1000, 0, 0>>),
      NewLine(IDENTITY, <<0, -1000, 0>>),
      NewLine(ROT_Z_90, <<1000, 0, 0>>),
      NewLine(ROT_Z_90, <<0, 0, 0>>),
      NewLine(<<1000, 0, 0>>, <<0, 1000>>),
      NewLine(<<1000, 0, 0>>, <<0, 0, 1000>>),
      CapsuleLine("old", TRUE, <<1500, -250, 0>>, "Spine", <<>>, <<>>),
      CapsuleLine("unmatched", TRUE, <<0, 0, 0>>, "", <<>>, <<>>),
      CapsuleLine("old", FALSE, <<0, 0, 0>>, "Head", <<>>, <<>>),
      CapsuleLine("other", TRUE, <<0, 0, 0>>, "", <<>>, <<>>) }

ManualScales ==
    {NotGiven} \cup {[given |-> TRUE, value |-> v] : v \in {1, 1000}}

DznFile(kind, has_rotation, rot, has_direction, dir) ==
    [kind |-> kind, has_rotation |-> has_rotation, rotation |-> rot,
     has_direction |-> has_direction, direction |-> dir]

DznFiles ==
    { NoDznFile,
      DznFile("integer", TRUE, ROT_Z_90, TRUE, <<0, 0, 1000>>),
      DznFile("integer", TRUE, IDENTITY, TRUE, <<0, 0, 1000>>),
      DznFile("integer", TRUE, ROT_Z_90, TRUE, <<0, 0, 0>>),
      DznFile("integer", TRUE, ROT_Z_90, FALSE, <<>>),
      DznFile("integer", FALSE, <<>>, TRUE, <<1000, 0, 0>>),
      DznFile("float", TRUE, ROT_Z_90, TRUE, <<0, 0, 1000>>) }

ParseInit ==
    /\ output_text \in SeqsUpTo(LinePool, MaxOutputLines)
    /\ integer_scaling_note \in BOOLEAN
    /\ manual_scale \in ManualScales
    /\ dzn_file \in DznFiles
    /\ parse_result = NoParse
    /\ parse_caller = "none"
    /\ parse_pc = "ready"
    /\ CovIdle /\ FitIdle /\ SkinIdle /\ PipeIdle /\ OptIdle /\ EnhIdle /\ MeshIdle
    /\ GltfIdle

\* generator.parse_minizinc_output(output_text, manual_scale, dzn_path)
ParseMinizincOutput ==
    /\ parse_pc = "ready"
    /\ parse_result' = parse_minizinc_output(output_text, manual_scale,
                                             integer_scaling_note, dzn_file)
    /\ parse_caller' = "generator"
    /\ parse_pc' = "done"
    /\ UNCHANGED <<output_text, integer_scaling_note, manual_scale, dzn_file>>
    /\ ParseFrame

\* pipeline.parse_optimization_results(results_path, dzn_path): the scale is
\* always given, from self.config["scale_factor"]
ParseOptimizationResults ==
    /\ parse_pc = "ready"
    /\ manual_scale.given
    /\ parse_result' = parse_optimization_results(output_text, manual_scale,
                                                  integer_scaling_note, dzn_file)
    /\ parse_caller' = "pipeline"
    /\ parse_pc' = "done"
    /\ UNCHANGED <<output_text, integer_scaling_note, manual_scale, dzn_file>>
    /\ ParseFrame

ParseNext == ParseMinizincOutput \/ ParseOptimizationResults

SpecParse == ParseInit /\ [][ParseNext]_vars

-----------------------------------------------------------------------------
(* Claims about the parser.                                                 *)

\* The line matches one of the two capsule patterns
IsCapsuleLine(line) == line.shape \in {"new", "old"}

\* A capsule line the parser can read, and one it cannot
WellFormed(line) == IsCapsuleLine(line) /\ line.numbers_ok

Malformed(line) ==
    line.shape = "unmatched" \/ (IsCapsuleLine(line) /\ ~line.numbers_ok)

\* The parser has returned one capsule per matching line
AllLinesParsed ==
    /\ parse_pc = "done"
    /\ ~parse_result.raised
    /\ Len(parse_result.capsules) = Len(SelectSeq(output_text, IsCapsuleLine))

Whole(n) == [num |-> n, den |-> 1]

\* C18: every capsule the parser returns holds the position, length and
\* radii written in its line divided by the scale factor s (s >= 1) the
\* output was parsed with; for s = 1000 the position (-84000, 792000, -5000)
\* comes out as (-84, 792, -5).
C18_FixedPointDecoded ==
    AllLinesParsed =>
        \A k \in 1..Len(parse_result.capsules) :
           LET line    == SelectSeq(output_text, IsCapsuleLine)[k]
               capsule == parse_result.capsules[k]
               scale   == scale_factor_of(manual_scale, integer_scaling_note)
           IN  /\ \A c \in 1..3 :
                     capsule.position[c].num * scale
                        = line.pos[c] * capsule.position[c].den
               /\ capsule.length.num * scale = line.length * capsule.length.den
               /\ capsule.radius1.num * scale = line.r1 * capsule.radius1.den
               /\ capsule.radius2.num * scale = line.r2 * capsule.radius2.den
               /\ (scale = 1000 /\ line.pos = <<-84000, 792000, -5000>>) =>
                     capsule.position = <<Whole(-84), Whole(792), Whole(-5)>>

\* The line of scenario D has been parsed with scale factor 1000
C18_Witness ==
    /\ AllLinesParsed
    /\ scale_factor_of(manual_scale, integer_scaling_note) = 1000
    /\ \E k \in 1..Len(parse_result.capsules) :
          /\ SelectSeq(output_text, IsCapsuleLine)[k].pos
                = <<-84000, 792000, -5000>>
          /\ parse_result.capsules[k].position
                = <<Whole(-84), Whole(792), Whole(-5)>>

\* A rotation that was left unset is the identity
AsMatrix(rotation) == IF rotation.none THEN IDENTITY ELSE rotation.m

\* The rotation the resolution order gives a line: the matrix written in
\* the line when there are nine values and they are not the identity; else
\* the swing from +Y to the direction of the line, or of the companion data
\* as read, when there is one that is not zero; else the identity
ResolvedRotation(line, bone_data) ==
    IF line.shape = "new" /\ Len(line.rot_swing) = 9
       /\ line.rot_swing # IDENTITY
    THEN line.rot_swing
    ELSE IF line.shape = "new" /\ Len(line.dir) = 3
            /\ nonzero_direction(line.dir)
    THEN calculate_swing_rotation(DEFAULT_CAPSULE_DIRECTION, line.dir)
    ELSE IF bone_data.has_direction /\ nonzero_direction(bone_data.direction)
    THEN calculate_swing_rotation(DEFAULT_CAPSULE_DIRECTION, bone_data.direction)
    ELSE IDENTITY

\* C19: the rotation of every parsed capsule is the explicit matrix of its
\* line when present and not the identity, else the swing rotation from +Y
\* to the joint direction of the line or of the companion file, else the
\* identity.
C19_RotationResolutionOrder ==
    AllLinesParsed =>
        \A k \in 1..Len(parse_result.capsules) :
           AsMatrix(parse_result.capsules[k].rotation_matrix)
              = ResolvedRotation(SelectSeq(output_text, IsCapsuleLine)[k],
                                 parse_dzn_file(dzn_file))

\* C20: whatever the output text, the parser returns without raising, its
\* list has one capsule for each well-formed line and none for the others,
\* in input order, and it gives one diagnostic for each malformed line.
C20_MalformedLinesSkippedWithWarning ==
    parse_pc = "done" =>
        /\ ~parse_result.raised
        /\ Len(parse_result.capsules) = Len(SelectSeq(output_text, WellFormed))
        /\ \A k \in 1..Len(parse_result.capsules) :
              parse_result.capsules[k].bone_name
                 = SelectSeq(output_text, WellFormed)[k].bone_name
        /\ parse_result.diagnostics
              = Len(SelectSeq(output_text, Malformed))

-----------------------------------------------------------------------------
(* GLTFCapsuleGenerator.generate_capsule_mesh, src/minizinc_to_gltf.py:     *)
(* 49-246, and the capsule_data that process_results hands to it.          *)
(* A vertex is held by the quantities the code builds it from: the point   *)
(*   (r cos(phi) cos(theta), y + r sin(phi), r cos(phi) sin(theta))        *)
(* with phi = j (pi/2) / hemisphere_segments and theta = i 2 pi / segments *)
(* is [r8 |-> 8 r, phi |-> j, theta |-> i, y8 |-> 8 y]; a body vertex has  *)
(* phi = 0 and lies at distance r from the axis.  The factor 8 is          *)
(* cylinder_rings, which makes every interpolated radius and height an     *)
(* integer.  A normal is held as its direction, without the positive       *)
(* factor that normalisation divides by.                                   *)

\* cylinder_rings = 8 (line 58), a local of generate_capsule_mesh
cylinder_rings == 8

\* segments: int = 16 (line 51)
DEFAULT_SEGMENTS == 16

Vertex(r8, j, i, y8) == [r8 |-> r8, phi |-> j, theta |-> i, y8 |-> y8]

\* The direction (radial cos(theta), axial, radial sin(theta)) (lines 84-86)
BodyNormal(radial, axial, i) ==
    [kind |-> "body", radial |-> radial, axial |-> axial, phi |-> 0, theta |-> i]

\* The direction (cos(phi) cos(theta), sin(phi), cos(phi) sin(theta)) (lines 117-119)
CapNormal(j, i) == [kind |-> "cap", radial |-> 0, axial |-> 0, phi |-> j, theta |-> i]

\* hemisphere_segments = segments // 2 (line 98)
hemisphere_segments(segments) == segments \div 2

\* For comparison: the ring radius with the two ends exchanged
current_radius_swapped(ring, radius1, radius2) ==
    cylinder_rings * radius2 + ring * (radius1 - radius2)

\* current_radius of a ring (line 66), times cylinder_rings
current_radius(ring, radius1, radius2) ==
    cylinder_rings * radius1 + ring * (radius2 - radius1)

\* y_pos of a ring (line 63), times cylinder_rings
y_pos(ring, length) == (length * (2 * ring - cylinder_rings)) \div 2

\* The body: rings 0..cylinder_rings of `segments` vertices (lines 60-95)
body_vertices(length, radius1, radius2, segments) ==
    [k \in 1..((cylinder_rings + 1) * segments) |->
        LET ring == (k - 1) \div segments
            i == (k - 1) % segments
        IN  Vertex(current_radius(ring, radius1, radius2), 0, i, y_pos(ring, length))]

\* slope_factor = radius_diff / length if length > 0 else 0 (lines 80-81):
\* the normal (cos, slope_factor, sin) has the direction (length cos,
\* radius_diff, length sin) for length > 0
body_normals(length, radius1, radius2, segments) ==
    [k \in 1..((cylinder_rings + 1) * segments) |->
        LET i == (k - 1) % segments
        IN  IF length > 0 THEN BodyNormal(length, radius2 - radius1, i)
            ELSE BodyNormal(1, 0, i)]

\* One hemisphere: rings j = 1..hemisphere_segments around the centre at
\* height y8, at phi = (first + j) steps; first is -hemisphere_segments for
\* the bottom (phi = -pi/2 + j step, line 106) and 0 for the top (line 123)
hemisphere_vertices(radius, y8, first, segments) ==
    [k \in 1..(hemisphere_segments(segments) * segments) |->
        LET j == ((k - 1) \div segments) + 1
            i == (k - 1) % segments
        IN  Vertex(cylinder_rings * radius, first + j, i, y8)]

hemisphere_normals(first, segments) ==
    [k \in 1..(hemisphere_segments(segments) * segments) |->
        LET j == ((k - 1) \div segments) + 1
            i == (k - 1) % segments
        IN  CapNormal(first + j, i)]

\* The two triangles of each quad between the ring that starts at index lo
\* and the ring that starts at index up (lines 158-160, 177-182, 193-198)
band(lo, up, segments) ==
    [k \in 1..(2 * segments) |->
        LET i == (k - 1) \div 2
            next_i == (i + 1) % segments
        IN  IF (k - 1) % 2 = 0
            THEN <<lo + i, up + i, lo + next_i>>
            ELSE <<lo + next_i, up + i, up + next_i>>]

\* `count` bands between consecutive rings, the first ring starting at start
bands(start, count, segments) ==
    [k \in 1..(2 * segments * count) |->
        LET ring == (k - 1) \div (2 * segments)
        IN  band(start + ring * segments, start + (ring + 1) * segments,
                 segments)[((k - 1) % (2 * segments)) + 1]]

\* The band between the top ring of the cylinder and the first ring of the
\* top hemisphere (lines 208-215)
top_band(cylinder_top_ring, top_hemisphere_first_ring, segments) ==
    [k \in 1..(2 * segments) |->
        LET i == (k - 1) \div 2
            next_i == (i + 1) % segments
        IN  IF (k - 1) % 2 = 0
            THEN <<cylinder_top_ring + i, top_hemisphere_first_ring + next_i,
                   top_hemisphere_first_ring + i>>
            ELSE <<cylinder_top_ring + i, cylinder_top_ring + next_i,
                   top_hemisphere_first_ring + next_i>>]

\* The fan from the bottom centre vertex (lines 169-171)
bottom_fan(bottom_center_idx, bottom_hemisphere_start, segments) ==
    [k \in 1..segments |->
        <<bottom_center_idx, bottom_hemisphere_start + (k % segments),
          bottom_hemisphere_start + (k - 1)>>]

\* The fan to the top centre vertex (lines 233-236)
top_fan(top_hemisphere_last_ring, top_center_idx, segments) ==
    [k \in 1..segments |->
        <<top_hemisphere_last_ring + (k - 1), top_center_idx,
          top_hemisphere_last_ring + (k % segments)>>]

\* The index list, in the order of lines 144-236; indices count from 0
capsule_indices(segments) ==
    LET hs == hemisphere_segments(segments)
        base_cylinder == (cylinder_rings + 1) * segments
        bottom_center_idx == base_cylinder
        bottom_hemisphere_start == bottom_center_idx + 1
        bottom_hemisphere_last_ring == bottom_hemisphere_start + (hs - 1) * segments
        top_hemisphere_start == bottom_hemisphere_start + hs * segments
        top_center_idx == top_hemisphere_start + hs * segments
        cylinder_top_ring == cylinder_rings * segments
        top_hemisphere_last_ring == top_hemisphere_start + (hs - 1) * segments
    IN  bands(0, cylinder_rings, segments)
        \o bottom_fan(bottom_center_idx, bottom_hemisphere_start, segments)
        \o band(0, bottom_hemisphere_last_ring, segments)
        \o bands(bottom_hemisphere_start, hs - 1, segments)
        \o top_band(cylinder_top_ring, top_hemisphere_start, segments)
        \o bands(top_hemisphere_start, hs - 1, segments)
        \o top_fan(top_hemisphere_last_ring, top_center_idx, segments)

\* generate_capsule_mesh(length, radius1, radius2, segments=segments)
generate_capsule_mesh(length, radius1, radius2, segments) ==
    LET bottom_y == y_pos(0, length)
        top_y == y_pos(cylinder_rings, length)
    IN  [vertices |->
            body_vertices(length, radius1, radius2, segments)
            \o <<Vertex(0, 0, 0, bottom_y)>>
            \o hemisphere_vertices(radius1, bottom_y,
                                   -hemisphere_segments(segments), segments)
            \o hemisphere_vertices(radius2, top_y, 0, segments)
            \o <<Vertex(0, 0, 0, top_y)>>,
         normals |->
            body_normals(length, radius1, radius2, segments)
            \o <<BodyNormal(0, -1, 0)>>
            \o hemisphere_normals(-hemisphere_segments(segments), segments)
            \o hemisphere_normals(0, segments)
            \o <<BodyNormal(0, 1, 0)>>,
         indices |-> capsule_indices(segments)]

\* capsule_data as process_results builds it from a candidate (lines 655-663)
process_results_capsule_data(candidate) ==
    [built |-> TRUE, length |-> candidate.height,
     radius1 |-> candidate.radius_top, radius2 |-> candidate.radius_bottom]

MeshArgs(length, radius1, radius2, segments) ==
    [called |-> TRUE, length |-> length, radius1 |-> radius1, radius2 |-> radius2,
     segments |-> segments]

\* ---- inputs ----
MeshLengths == {2, 4}

MeshRadii == {1, 2, 3}

\* Segment counts a caller configures (skinned_capsule_pipeline.py:343)
SegmentChoices == {4, 8}

MeshCandidate(height, radius_top, radius_bottom) ==
    [given |-> TRUE, height |-> height, radius_top |-> radius_top,
     radius_bottom |-> radius_bottom]

\* Candidate records handed to process_results
MeshCandidates ==
    { MeshCandidate(2, 1, 1), MeshCandidate(4, 2, 2),
      MeshCandidate(2, 1, 3), MeshCandidate(4, 3, 2) }

MeshInit ==
    /\ mesh_candidate \in MeshCandidates
    /\ mesh_capsule_data = NoCapsuleData
    /\ mesh_args = NoMeshArgs
    /\ capsule_mesh = NoMesh
    /\ CovIdle /\ FitIdle /\ SkinIdle /\ PipeIdle /\ OptIdle /\ EnhIdle
    /\ GltfIdle /\ ParseIdle

\* A call of generate_capsule_mesh with a segment count, as
\* _generate_basic_capsules makes it (skinned_capsule_pipeline.py:166-168)
GenerateCapsuleMesh ==
    /\ \E length \in MeshLengths, radius1 \in MeshRadii, radius2 \in MeshRadii,
          segments \in SegmentChoices :
          /\ mesh_args' = MeshArgs(length, radius1, radius2, segments)
          /\ capsule_mesh' = generate_capsule_mesh(length, radius1, radius2, segments)
    /\ UNCHANGED <<mesh_candidate, mesh_capsule_data>>
    /\ MeshFrame

\* process_results on one selected candidate: capsule_data (lines 655-663),
\* then generate_gltf's call generate_capsule_mesh(length, r1, r2) (line 1015)
ProcessResultsMesh ==
    /\ LET data == process_results_capsule_data(mesh_candidate)
       IN  /\ mesh_capsule_data' = data
           /\ mesh_args' = MeshArgs(data.length, data.radius1, data.radius2,
                                    DEFAULT_SEGMENTS)
           /\ capsule_mesh' = generate_capsule_mesh(data.length, data.radius1,
                                                    data.radius2, DEFAULT_SEGMENTS)
    /\ UNCHANGED mesh_candidate
    /\ MeshFrame

MeshNext == GenerateCapsuleMesh \/ ProcessResultsMesh

SpecMesh == MeshInit /\ [][MeshNext]_vars

-----------------------------------------------------------------------------
(* Claims about the capsule mesh.                                          *)

\* The vertices of capsule_mesh at the 0-based indices first..first+count-1
VerticesAt(first, count) ==
    {capsule_mesh.vertices[k + 1] : k \in first..(first + count - 1)}

BaseCylinder == (cylinder_rings + 1) * mesh_args.segments

CapSize == hemisphere_segments(mesh_args.segments) * mesh_args.segments

BottomCap == VerticesAt(BaseCylinder + 1, CapSize)

TopCap == VerticesAt(BaseCylinder + 1 + CapSize, CapSize)

\* Every vertex of the cap lies on the sphere of this radius about the axis
\* point at height y8
CapBuiltWith(cap, radius, y8) ==
    \A v \in cap : v.r8 = cylinder_rings * radius /\ v.y8 = y8

\* C23: the hemisphere cap at the p1 end (the bottom, y = -length/2) is built
\* with radius_bottom and the cap at the p2 end (the top) with radius_top:
\* generate_capsule_mesh builds the bottom cap with its radius1 and the top
\* cap with its radius2, and process_results hands the candidate's
\* radius_bottom over as radius1 and its radius_top as radius2.
C23_RadiiNeverSwapped ==
    /\ mesh_args.called =>
          /\ CapBuiltWith(BottomCap, mesh_args.radius1, y_pos(0, mesh_args.length))
          /\ CapBuiltWith(TopCap, mesh_args.radius2,
                          y_pos(cylinder_rings, mesh_args.length))
    /\ mesh_capsule_data.built =>
          /\ mesh_capsule_data.radius1 = mesh_candidate.radius_bottom
          /\ mesh_capsule_data.radius2 = mesh_candidate.radius_top

\* The body is what precedes the first vertex on the axis (the bottom centre)
BodyVertexCount ==
    (CHOOSE k \in 1..Len(capsule_mesh.vertices) :
        /\ capsule_mesh.vertices[k].r8 = 0
        /\ \A m \in 1..(k - 1) : capsule_mesh.vertices[m].r8 # 0) - 1

BodyRing(k) == VerticesAt(k * mesh_args.segments, mesh_args.segments)

\* The body is ring_count + 1 rings of `segments` vertices, the vertices of a
\* ring at one height and at the distance
\* radius1 + (k / ring_count) (radius2 - radius1) from the axis
BodyOfRings(ring_count) ==
    /\ BodyVertexCount = (ring_count + 1) * mesh_args.segments
    /\ \A k \in 0..ring_count :
          /\ Cardinality(BodyRing(k)) = mesh_args.segments
          /\ \A u, v \in BodyRing(k) : u.y8 = v.y8
          /\ \A v \in BodyRing(k) :
                /\ v.phi = 0
                /\ ring_count * v.r8 =
                      cylinder_rings * (ring_count * mesh_args.radius1
                                        + k * (mesh_args.radius2 - mesh_args.radius1))
    /\ \A j, k \in 0..ring_count :
          j < k => \A u \in BodyRing(j), v \in BodyRing(k) : u.y8 < v.y8

ConstantRadiusWhenEqual ==
    mesh_args.radius1 = mesh_args.radius2 =>
        \A k \in 1..BodyVertexCount :
            capsule_mesh.vertices[k].r8 = cylinder_rings * mesh_args.radius1

\* C24 as amended: the body of every mesh generate_capsule_mesh returns
\* consists of cylinder_rings + 1 = 9 rings (the ring count is the local
\* constant 8 of the function, not an input), each ring has exactly
\* `segments` vertices, ring k lies at distance
\* radius1 + (k / 8) (radius2 - radius1) from the axis, radius1 being the
\* bottom radius, and with radius1 = radius2 every body vertex is at that
\* one distance.
C24_BodyRings ==
    mesh_args.called => BodyOfRings(cylinder_rings) /\ ConstantRadiusWhenEqual

\* Ring counts a caller may want
RingCounts == {4, cylinder_rings}

\* C24 as claimed: the body has ring_count + 1 rings for the ring_count
\* given as input, whichever it is.
C24_AsClaimed ==
    mesh_args.called =>
        \A ring_count \in RingCounts :
            BodyOfRings(ring_count) /\ ConstantRadiusWhenEqual

C24_Witness ==
    /\ mesh_args.called /\ mesh_args.segments = 4
    /\ mesh_args.radius1 = 3 /\ mesh_args.radius2 = 1
    /\ \E v \in BodyRing(4) : v.r8 = cylinder_rings * 2
    /\ \E v \in BodyRing(cylinder_rings) : v.r8 = cylinder_rings * 1

\* 10 cos(k pi / 4) and 10 sin(k pi / 4), to one decimal
Cos10Table == <<10, 7, 0, -7, -10, -7, 0, 7>>

cos10(k) == Cos10Table[(k % 8) + 1]

sin10(k) == cos10(k - 2)

\* With segments = 4 theta is a multiple of pi/2 and phi a multiple of pi/4
QuarterTurnMesh == mesh_args.segments = 4

\* The position of a vertex of a mesh of 4 segments, in units of 1/80:
\* (r cos(phi) cos(theta), y + r sin(phi), r cos(phi) sin(theta))
Position(v) ==
    << (v.r8 * cos10(v.phi) * cos10(2 * v.theta)) \div 10,
       10 * v.y8 + v.r8 * sin10(v.phi),
       (v.r8 * cos10(v.phi) * sin10(2 * v.theta)) \div 10 >>

Corner(t, c) == Position(capsule_mesh.vertices[capsule_mesh.indices[t][c] + 1])

\* (B - A) x (C - A): the normal of triangle t by the right-hand rule
FaceNormal(t) ==
    Cross(Sub(Corner(t, 2), Corner(t, 1)), Sub(Corner(t, 3), Corner(t, 1)))

ZeroArea(t) == FaceNormal(t) = <<0, 0, 0>>

\* The face normal against the direction from the axis to the triangle:
\* three times the centroid, less three times the point of the axis segment
\* closest to it
Outwardness(t) ==
    LET g3 == <<Corner(t, 1)[1] + Corner(t, 2)[1] + Corner(t, 3)[1],
                Corner(t, 1)[2] + Corner(t, 2)[2] + Corner(t, 3)[2],
                Corner(t, 1)[3] + Corner(t, 2)[3] + Corner(t, 3)[3]>>
        axis3 == <<0, Clip(g3[2], 30 * y_pos(0, mesh_args.length),
                           30 * y_pos(cylinder_rings, mesh_args.length)), 0>>
    IN  Dot(FaceNormal(t), Sub(g3, axis3))

\* dot(normal, position - closest point on the axis) of body vertex k, up to
\* a positive factor: (radial cos, axial, radial sin) . (r cos, 0, r sin)
BodyNormalDot(k) == capsule_mesh.normals[k].radial * capsule_mesh.vertices[k].r8

\* C25: every triangle of a generated mesh that has an area is wound so that
\* its normal faces outward (away from the axis), and for every body vertex
\* dot(normal, position - closest point on the axis) > 0.
C25_OutwardWinding ==
    mesh_args.called =>
        /\ QuarterTurnMesh =>
              \A t \in 1..Len(capsule_mesh.indices) :
                  ~ZeroArea(t) => Outwardness(t) > 0
        /\ \A k \in 1..BodyVertexCount : BodyNormalDot(k) > 0

-----------------------------------------------------------------------------
(* Smoothing with no iterations.                                           *)

\* C21: with 0 smoothing iterations the weights are returned unchanged, by
\* transfer_and_smooth_capsule_weights (smoothing_iterations = 0: what it
\* returns is what transfer produced) and by _smooth_weights_simple
\* (iterations = 0: its result is its input).
C21_ZeroIterationsIdentity ==
    /\ (smoothing_iterations = 0 /\ skin_pc \in {"returned", "packed"})
          => smooth_weights = initial_weights
    /\ skin_pc # "start"
          => smooth_weights_simple(initial_weights, capsule_faces, 0) = initial_weights

C21_Witness ==
    /\ skin_pc = "returned" /\ smoothing_iterations = 0
    /\ capsule_faces # <<>>
    /\ \E i, j \in 1..Len(initial_weights) : initial_weights[i] # initial_weights[j]
    /\ smooth_weights = initial_weights

-----------------------------------------------------------------------------
(* The tapered test on a capsule of one radius.                            *)

\* distance <= r for a distance of square d.sq / d.den
DistanceAtMost(d, r) == r >= 0 /\ d.sq <= r * r * d.den

EqualRadii(c) == c.radius_top = c.radius_bottom

IsTestCapsule(c) ==
    /\ c.p1 = Vec(0, 0, 0) /\ c.p2 = Vec(0, 20, 0)
    /\ c.radius_top = 10 /\ c.radius_bottom = 10

\* C22: with radius_top = radius_bottom = r, _point_in_tapered_capsule
\* returns true iff the distance from the point to the segment p1-p2, as
\* _point_to_line_segment_distance computes it, is <= r; for p1 = (0,0,0),
\* p2 = (0,2,0), r = 1.0 the point (0,1,0) is inside and (0,1,2) is outside.
C22_EqualRadiiIsPlainCapsule ==
    (probe.called /\ EqualRadii(probe.capsule)) =>
        /\ probe.inside <=>
              DistanceAtMost(point_to_line_segment_distance(
                                 probe.point, probe.capsule.p1, probe.capsule.p2),
                             probe.capsule.radius_top)
        /\ (IsTestCapsule(probe.capsule) /\ probe.point = Vec(0, 10, 0)) => probe.inside
        /\ (IsTestCapsule(probe.capsule) /\ probe.point = Vec(0, 10, 20)) => ~probe.inside

C22_Witness ==
    /\ probe.called /\ IsTestCapsule(probe.capsule)
    /\ probe.point = Vec(0, 10, 20) /\ ~probe.inside

-----------------------------------------------------------------------------
(* One capsule of _generate_skinned_capsules_with_weights,                 *)
(* src/src/skinned_capsule_pipeline.py:197-264: weights are transferred,   *)
(* smoothed and packed, and the capsule is added to the scene with them;   *)
(* when the try block raises, it is added without.                         *)

NotSkinVars == <<covVars, fitVars, pipeVars, optVars, enhVars, parseVars, meshVars>>

SkinnedCapsuleData ==
    [vertex_count |-> Len(capsule_vertices), index_count |-> 3 * Len(capsule_faces)]

AddToScene(skinning, colors) ==
    /\ gltf_data' = add_capsule_to_scene(gltf_data, SkinnedCapsuleData,
                                         Len(gltf_data.meshes) + 1, skinning, colors)
    /\ gltf_route' = "mixed"
    /\ gltf_ops' = gltf_ops + 1
    /\ skin_pc' = "added"
    /\ UNCHANGED <<gltf_selected, gltf_calls, gltf_validation>>
    /\ UNCHANGED <<original_mesh_data, capsule_vertices, capsule_faces,
                   ROBUST_LAPLACIAN_AVAILABLE, smoothing_iterations,
                   initial_weights, smooth_weights, bone_indices, smooth_i,
                   last_strategy, joints_data, weights_data>>
    /\ UNCHANGED NotSkinVars

\* Lines 234-263: skinning_data is set; vertex_colors is set when colors are
\* enabled and generate_vertex_colors returns
AddSkinnedCapsule ==
    /\ skin_pc = "packed"
    /\ \E colors \in BOOLEAN : AddToScene(TRUE, colors)

\* Lines 251-263: the try block raised before skinning_data was set
AddCapsuleAfterFailure ==
    /\ skin_pc \in {"start", "smoothing", "returned"}
    /\ AddToScene(FALSE, FALSE)

SkinnedCapsuleNext == SkinNext \/ AddSkinnedCapsule \/ AddCapsuleAfterFailure

SpecSkinnedCapsule == SkinInit /\ [][SkinnedCapsuleNext]_vars

\* The accessor of an attribute of a mesh, and the bufferView it reads
AttributeAccessor(m, name) == gltf_data.accessors[m.attributes[name] + 1]

AttributeView(m, name) ==
    gltf_data.bufferViews[AttributeAccessor(m, name).bufferView + 1]

\* Four components per vertex, of 2 bytes each for joints and 4 for weights
FourSlotsPerVertex(m, name, bytes) ==
    /\ AttributeAccessor(m, name).type = 4
    /\ AttributeAccessor(m, name).count = Len(capsule_vertices)
    /\ AttributeView(m, name).byteLength = 4 * bytes * Len(capsule_vertices)

\* The influences of vertex i that are packed: the weights above 0.001
KeptCount(i) ==
    Cardinality({k \in Slots : smooth_weights[i].w[k] > smooth_weights[i].d \div THOUSAND})

\* The packed record of vertex i: four slots, the kept influences first and
\* in descending order, the other slots 0 in weight and joint, and the
\* weights divided by their sum
PackedRecord(i) ==
    /\ DOMAIN joints_data[i] = Slots /\ DOMAIN weights_data[i].w = Slots
    /\ \A k \in Slots :
          IF k <= KeptCount(i)
          THEN /\ weights_data[i].w[k] > 0
               /\ k > 1 => weights_data[i].w[k] <= weights_data[i].w[k - 1]
          ELSE weights_data[i].w[k] = 0 /\ joints_data[i][k] = 0
    /\ KeptCount(i) > 0 => SumsToOne(weights_data[i])

-----------------------------------------------------------------------------
(* Degenerate inputs of the coverage analyzers.                            *)

\* No candidate or no witness point was handed to build_coverage_matrix
DegenerateInput == Len(capsules) = 0 \/ Len(witness_points) = 0

\* A delivered array with zero rows or zero columns (not None, no error line)
EmptyMatrix(m) == ~m.none /\ (m.shape[1] = 0 \/ m.shape[2] = 0)

\* C27: given zero witness points or zero candidates, build_coverage_matrix
\* (of the CoACD pipeline and of the VRM pipeline alike) returns an empty
\* matrix, of zero rows or zero columns, and neither raises nor reports an
\* error.
C27_DegenerateInputsYieldEmptyMatrix ==
    DegenerateInput =>
        /\ coverage_matrix.built => EmptyMatrix(coverage_matrix)
        /\ vrm_coverage.built => EmptyMatrix(vrm_coverage)

-----------------------------------------------------------------------------
(* Claims about the result of the progressive retry.                       *)

\* The solver invocations that ended with a solution written out
Succeeded == {k \in 1..Len(attempts) : attempts[k].success}

\* The last of them
LastSucceeded == CHOOSE k \in Succeeded : \A j \in Succeeded : j <= k

\* run_optimization has returned a value (it has not been left by an exception)
Returned == opt_pc = "done" /\ opt_return \in {"true", "false"}

\* C28: run_optimization returns True iff at least one attempt of
\* run_single_optimization succeeded, and from the first success on (so
\* whenever it returns True) the results file holds the solver output of the
\* last successful attempt: a later failed attempt neither replaces nor
\* removes it.
C28_TrueIffSomeAttemptSucceeded ==
    /\ Returned => (opt_return = "true" <=> Succeeded # {})
    /\ Succeeded # {} => opt_results_file = attempts[LastSucceeded].capsule_count

\* True was returned after a failed attempt that followed two successes
C28_Witness ==
    /\ Returned /\ opt_return = "true"
    /\ Len(attempts) >= 3 /\ LastSucceeded = Len(attempts) - 1
    /\ last_outcome \in {"timeout", "error", "no_solution", "missing"}
    /\ \E k \in Succeeded : k < LastSucceeded

-----------------------------------------------------------------------------
(* Claims about the order of the progressive retry.                        *)

\* The solver invocations made for a count of the schedule
Scheduled == {k \in 1..Len(attempts) : ~attempts[k].fallback}

\* C29: the capsule counts of the schedule are attempted in increasing order;
\* once some attempt has succeeded, the first later attempt that fails ends
\* the retry loop, so that no further count is attempted after it; and the
\* loop makes at most two solver invocations per scheduled count.
C29_IncreasingUntilFirstFailure ==
    /\ \A i, j \in Scheduled :
          i < j => attempts[i].capsule_count < attempts[j].capsule_count
    /\ \A i, j \in 1..Len(attempts) :
          (i < j /\ attempts[i].success /\ ~attempts[j].success) =>
              /\ j = Len(attempts)
              /\ opt_pc \in {"finish", "done"}
    /\ Len(attempts) <= 2 * Len(capsule_counts(opt_max_capsules))

-----------------------------------------------------------------------------
(* Claims about the layout of the output buffer.                           *)

\* The byte range of a bufferView, end excluded
ViewEnd(view) == view.byteOffset + view.byteLength

\* Accessors, bufferViews and buffers of a scene fit together
BufferLayoutSound(g) ==
    /\ \A a \in 1..Len(g.accessors) :
          g.accessors[a].bufferView \in 0..(Len(g.bufferViews) - 1)
    /\ \A b \in 1..Len(g.bufferViews) :
          /\ g.bufferViews[b].buffer \in 0..(Len(g.buffers) - 1)
          /\ ViewEnd(g.bufferViews[b])
                <= g.buffers[g.bufferViews[b].buffer + 1].byteLength
    /\ \A b, c \in 1..Len(g.bufferViews) :
          (b # c /\ g.bufferViews[b].buffer = g.bufferViews[c].buffer) =>
              \/ ViewEnd(g.bufferViews[b]) <= g.bufferViews[c].byteOffset
              \/ ViewEnd(g.bufferViews[c]) <= g.bufferViews[b].byteOffset
    /\ \A k \in 1..Len(g.buffers) :
          g.buffers[k].byteLength = b64decode_length(g.buffers[k].uri)

\* The step is the first generate_gltf call on this generator
FirstGenerateGltf == gltf_calls = 0 /\ gltf_calls' = 1

\* C30: when generate_gltf returns after any sequence of add_capsule_to_scene
\* calls, every accessor references an existing bufferView, every bufferView
\* ends within the declared byteLength of its buffer, no two bufferViews
\* overlap, and the declared byteLength of the buffer is the length of the
\* data decoded from its URI.
C30_BufferLayoutSound ==
    [][FirstGenerateGltf => BufferLayoutSound(gltf_data')]_vars

\* generate_gltf has returned once on a scene of at least one capsule whose
\* data is not a multiple of three bytes long and in which padding separates
\* two bufferViews
C30_Witness ==
    /\ gltf_calls = 1 /\ Len(gltf_data.buffers) = 1
    /\ Len(gltf_data.meshes) >= 1
    /\ BufferLayoutSound(gltf_data)
    /\ gltf_data.buffers[1].uri.padding # 0
    /\ \E b \in 1..(Len(gltf_data.bufferViews) - 1) :
          ViewEnd(gltf_data.bufferViews[b]) < gltf_data.bufferViews[b + 1].byteOffset

====
